---- MODULE Spec2Model ----
(***************************************************************************)
(* The company registry and ingestion cycle of the FDA regulatory          *)
(* intelligence server (src/final.js): name normalisation and resolution,  *)
(* the registry upsert, link de-duplication, the risk and compliance       *)
(* scores, and the triggers that start an ingestion cycle.                 *)
(*                                                                         *)
(* JavaScript strings are sequences of one-character strings, so that the  *)
(* regular expressions and string methods of the source are computed, not  *)
(* assumed.  Times are whole days.                                         *)
(***************************************************************************)
EXTENDS Integers, Sequences, FiniteSets, TLC

(***************************************************************************)
(* Characters and the String methods the source uses                       *)
(***************************************************************************)
LowerSeq == <<"a","b","c","d","e","f","g","h","i","j","k","l","m","n","o","p","q","r","s","t","u","v","w","x","y","z">>
UpperSeq == <<"A","B","C","D","E","F","G","H","I","J","K","L","M","N","O","P","Q","R","S","T","U","V","W","X","Y","Z">>
Lowers == {LowerSeq[i] : i \in 1..26}
Uppers == {UpperSeq[i] : i \in 1..26}
Digits == {"0","1","2","3","4","5","6","7","8","9"}

\* \w of a JavaScript regular expression: [A-Za-z0-9_]
WordChars == Lowers \cup Uppers \cup Digits \cup {"_"}
IsWordChar(c) == c \in WordChars
\* \s ; the names and links of the model hold no other white space than " "
IsSpace(c) == c = " "

ToLowerChar(c) == IF c \in Uppers THEN LowerSeq[CHOOSE i \in 1..26 : UpperSeq[i] = c] ELSE c
ToUpperChar(c) == IF c \in Lowers THEN UpperSeq[CHOOSE i \in 1..26 : LowerSeq[i] = c] ELSE c

\* String.prototype.toLowerCase
toLowerCase(s) == [i \in 1..Len(s) |-> ToLowerChar(s[i])]

RECURSIVE TrimLeft(_)
TrimLeft(s) == IF s # <<>> /\ IsSpace(Head(s)) THEN TrimLeft(Tail(s)) ELSE s

RECURSIVE TrimRight(_)
TrimRight(s) ==
    IF s # <<>> /\ IsSpace(s[Len(s)]) THEN TrimRight(SubSeq(s, 1, Len(s) - 1)) ELSE s

\* String.prototype.trim
trim(s) == TrimLeft(TrimRight(s))

\* s.replace(/\s+/g, ' ') : every run of white space becomes one space
RECURSIVE CollapseSpaces(_)
CollapseSpaces(s) ==
    IF Len(s) < 2 THEN s
    ELSE IF IsSpace(s[1]) /\ IsSpace(s[2]) THEN CollapseSpaces(Tail(s))
    ELSE <<s[1]>> \o CollapseSpaces(Tail(s))

\* s.replace(/\s+/g, '') : all white space removed
RemoveSpaces(s) == SelectSeq(s, LAMBDA c : ~IsSpace(c))

EndsWith(s, w) == Len(w) <= Len(s) /\ SubSeq(s, Len(s) - Len(w) + 1, Len(s)) = w

(***************************************************************************)
(* The known-company table                                                 *)
(***************************************************************************)
\* this.knownCompanies, in source order (domain and ticker are not modelled:
\* they take no part in resolution)
knownCompanies == <<
    \* 'pfizer'                 -> Pfizer Inc.
    [key |-> <<"p","f","i","z","e","r">>,
     canonical |-> <<"P","f","i","z","e","r"," ","I","n","c",".">>],
    \* 'merck'                  -> Merck & Co., Inc.
    [key |-> <<"m","e","r","c","k">>,
     canonical |-> <<"M","e","r","c","k"," ","&"," ","C","o",".",","," ","I","n","c",".">>],
    \* 'johnson & johnson'      -> Johnson & Johnson
    [key |-> <<"j","o","h","n","s","o","n"," ","&"," ","j","o","h","n","s","o","n">>,
     canonical |-> <<"J","o","h","n","s","o","n"," ","&"," ","J","o","h","n","s","o","n">>],
    \* 'j&j'                    -> Johnson & Johnson
    [key |-> <<"j","&","j">>,
     canonical |-> <<"J","o","h","n","s","o","n"," ","&"," ","J","o","h","n","s","o","n">>],
    \* 'roche'                  -> F. Hoffmann-La Roche Ltd
    [key |-> <<"r","o","c","h","e">>,
     canonical |-> <<"F","."," ","H","o","f","f","m","a","n","n","-","L","a"," ","R","o","c","h","e"," ","L","t","d">>],
    \* 'novartis'               -> Novartis AG
    [key |-> <<"n","o","v","a","r","t","i","s">>,
     canonical |-> <<"N","o","v","a","r","t","i","s"," ","A","G">>],
    \* 'sanofi'                 -> Sanofi
    [key |-> <<"s","a","n","o","f","i">>,
     canonical |-> <<"S","a","n","o","f","i">>],
    \* 'glaxosmithkline'        -> GlaxoSmithKline plc
    [key |-> <<"g","l","a","x","o","s","m","i","t","h","k","l","i","n","e">>,
     canonical |-> <<"G","l","a","x","o","S","m","i","t","h","K","l","i","n","e"," ","p","l","c">>],
    \* 'gsk'                    -> GlaxoSmithKline plc
    [key |-> <<"g","s","k">>,
     canonical |-> <<"G","l","a","x","o","S","m","i","t","h","K","l","i","n","e"," ","p","l","c">>],
    \* 'astrazeneca'            -> AstraZeneca PLC
    [key |-> <<"a","s","t","r","a","z","e","n","e","c","a">>,
     canonical |-> <<"A","s","t","r","a","Z","e","n","e","c","a"," ","P","L","C">>],
    \* 'abbvie'                 -> AbbVie Inc.
    [key |-> <<"a","b","b","v","i","e">>,
     canonical |-> <<"A","b","b","V","i","e"," ","I","n","c",".">>],
    \* 'bristol myers squibb'   -> Bristol Myers Squibb Company
    [key |-> <<"b","r","i","s","t","o","l"," ","m","y","e","r","s"," ","s","q","u","i","b","b">>,
     canonical |-> <<"B","r","i","s","t","o","l"," ","M","y","e","r","s"," ","S","q","u","i","b","b"," ","C","o","m","p","a","n","y">>],
    \* 'bristol-myers squibb'   -> Bristol Myers Squibb Company
    [key |-> <<"b","r","i","s","t","o","l","-","m","y","e","r","s"," ","s","q","u","i","b","b">>,
     canonical |-> <<"B","r","i","s","t","o","l"," ","M","y","e","r","s"," ","S","q","u","i","b","b"," ","C","o","m","p","a","n","y">>],
    \* 'bms'                    -> Bristol Myers Squibb Company
    [key |-> <<"b","m","s">>,
     canonical |-> <<"B","r","i","s","t","o","l"," ","M","y","e","r","s"," ","S","q","u","i","b","b"," ","C","o","m","p","a","n","y">>],
    \* 'eli lilly'              -> Eli Lilly and Company
    [key |-> <<"e","l","i"," ","l","i","l","l","y">>,
     canonical |-> <<"E","l","i"," ","L","i","l","l","y"," ","a","n","d"," ","C","o","m","p","a","n","y">>],
    \* 'lilly'                  -> Eli Lilly and Company
    [key |-> <<"l","i","l","l","y">>,
     canonical |-> <<"E","l","i"," ","L","i","l","l","y"," ","a","n","d"," ","C","o","m","p","a","n","y">>],
    \* 'amgen'                  -> Amgen Inc.
    [key |-> <<"a","m","g","e","n">>,
     canonical |-> <<"A","m","g","e","n"," ","I","n","c",".">>],
    \* 'gilead'                 -> Gilead Sciences, Inc.
    [key |-> <<"g","i","l","e","a","d">>,
     canonical |-> <<"G","i","l","e","a","d"," ","S","c","i","e","n","c","e","s",","," ","I","n","c",".">>],
    \* 'biogen'                 -> Biogen Inc.
    [key |-> <<"b","i","o","g","e","n">>,
     canonical |-> <<"B","i","o","g","e","n"," ","I","n","c",".">>],
    \* 'regeneron'              -> Regeneron Pharmaceuticals, Inc.
    [key |-> <<"r","e","g","e","n","e","r","o","n">>,
     canonical |-> <<"R","e","g","e","n","e","r","o","n"," ","P","h","a","r","m","a","c","e","u","t","i","c","a","l","s",","," ","I","n","c",".">>],
    \* 'moderna'                -> Moderna, Inc.
    [key |-> <<"m","o","d","e","r","n","a">>,
     canonical |-> <<"M","o","d","e","r","n","a",","," ","I","n","c",".">>],
    \* 'bayer'                  -> Bayer AG
    [key |-> <<"b","a","y","e","r">>,
     canonical |-> <<"B","a","y","e","r"," ","A","G">>],
    \* 'takeda'                 -> Takeda Pharmaceutical Company Limited
    [key |-> <<"t","a","k","e","d","a">>,
     canonical |-> <<"T","a","k","e","d","a"," ","P","h","a","r","m","a","c","e","u","t","i","c","a","l"," ","C","o","m","p","a","n","y"," ","L","i","m","i","t","e","d">>],
    \* 'boehringer ingelheim'   -> Boehringer Ingelheim
    [key |-> <<"b","o","e","h","r","i","n","g","e","r"," ","i","n","g","e","l","h","e","i","m">>,
     canonical |-> <<"B","o","e","h","r","i","n","g","e","r"," ","I","n","g","e","l","h","e","i","m">>],
    \* 'teva'                   -> Teva Pharmaceutical Industries Ltd.
    [key |-> <<"t","e","v","a">>,
     canonical |-> <<"T","e","v","a"," ","P","h","a","r","m","a","c","e","u","t","i","c","a","l"," ","I","n","d","u","s","t","r","i","e","s"," ","L","t","d",".">>],
    \* 'mylan'                  -> Mylan N.V.
    [key |-> <<"m","y","l","a","n">>,
     canonical |-> <<"M","y","l","a","n"," ","N",".","V",".">>],
    \* 'viatris'                -> Viatris Inc.
    [key |-> <<"v","i","a","t","r","i","s">>,
     canonical |-> <<"V","i","a","t","r","i","s"," ","I","n","c",".">>],
    \* 'vertex'                 -> Vertex Pharmaceuticals Incorporated
    [key |-> <<"v","e","r","t","e","x">>,
     canonical |-> <<"V","e","r","t","e","x"," ","P","h","a","r","m","a","c","e","u","t","i","c","a","l","s"," ","I","n","c","o","r","p","o","r","a","t","e","d">>],
    \* 'alexion'                -> Alexion Pharmaceuticals, Inc.
    [key |-> <<"a","l","e","x","i","o","n">>,
     canonical |-> <<"A","l","e","x","i","o","n"," ","P","h","a","r","m","a","c","e","u","t","i","c","a","l","s",","," ","I","n","c",".">>],
    \* 'incyte'                 -> Incyte Corporation
    [key |-> <<"i","n","c","y","t","e">>,
     canonical |-> <<"I","n","c","y","t","e"," ","C","o","r","p","o","r","a","t","i","o","n">>],
    \* 'jazz pharmaceuticals'   -> Jazz Pharmaceuticals plc
    [key |-> <<"j","a","z","z"," ","p","h","a","r","m","a","c","e","u","t","i","c","a","l","s">>,
     canonical |-> <<"J","a","z","z"," ","P","h","a","r","m","a","c","e","u","t","i","c","a","l","s"," ","p","l","c">>],
    \* 'horizon therapeutics'   -> Horizon Therapeutics plc
    [key |-> <<"h","o","r","i","z","o","n"," ","t","h","e","r","a","p","e","u","t","i","c","s">>,
     canonical |-> <<"H","o","r","i","z","o","n"," ","T","h","e","r","a","p","e","u","t","i","c","s"," ","p","l","c">>],
    \* 'catalent'               -> Catalent, Inc.
    [key |-> <<"c","a","t","a","l","e","n","t">>,
     canonical |-> <<"C","a","t","a","l","e","n","t",","," ","I","n","c",".">>],
    \* 'perrigo'                -> Perrigo Company plc
    [key |-> <<"p","e","r","r","i","g","o">>,
     canonical |-> <<"P","e","r","r","i","g","o"," ","C","o","m","p","a","n","y"," ","p","l","c">>],
    \* 'mallinckrodt'           -> Mallinckrodt plc
    [key |-> <<"m","a","l","l","i","n","c","k","r","o","d","t">>,
     canonical |-> <<"M","a","l","l","i","n","c","k","r","o","d","t"," ","p","l","c">>]
>>

KnownKeys == {knownCompanies[i].key : i \in DOMAIN knownCompanies}

\* this.knownCompanies[normalized] : the entry, for a key of the table
KnownEntry(k) == knownCompanies[CHOOSE i \in DOMAIN knownCompanies : knownCompanies[i].key = k]

(***************************************************************************)
(* Name normalisation and cleaning                                         *)
(***************************************************************************)
\* normalizeForMatching: lower-case, drop every character that is neither \w
\* nor \s, collapse white space, trim.  ('' for an empty name.)
normalizeForMatching(name) ==
    IF name = <<>> THEN <<>>
    ELSE trim(CollapseSpaces(
            SelectSeq(toLowerCase(name), LAMBDA c : IsWordChar(c) \/ IsSpace(c))))

\* titleCase: str.replace(/\w\S*/g, ...) : a token starts at a \w character and
\* runs to the next white space; its first character is upper-cased, the rest
\* lower-cased.  Characters outside a token are kept.
RECURSIVE TitleCaseFrom(_, _)
TitleCaseFrom(s, inToken) ==
    IF s = <<>> THEN <<>>
    ELSE IF inToken
         THEN IF IsSpace(Head(s))
              THEN <<Head(s)>> \o TitleCaseFrom(Tail(s), FALSE)
              ELSE <<ToLowerChar(Head(s))>> \o TitleCaseFrom(Tail(s), TRUE)
         ELSE IF IsWordChar(Head(s))
              THEN <<ToUpperChar(Head(s))>> \o TitleCaseFrom(Tail(s), TRUE)
              ELSE <<Head(s)>> \o TitleCaseFrom(Tail(s), FALSE)

titleCase(str) == TitleCaseFrom(str, FALSE)

\* name.replace(/[,;:\.\-]+$/, '') (the source's class also holds the en and
\* em dash, which no name of the model contains)
TrailingPunct == {",", ";", ":", ".", "-"}

RECURSIVE StripTrailingPunct(_)
StripTrailingPunct(s) ==
    IF s # <<>> /\ s[Len(s)] \in TrailingPunct
    THEN StripTrailingPunct(SubSeq(s, 1, Len(s) - 1))
    ELSE s

\* the alternatives of suffixPattern and of pharmaPattern, lower-cased (both
\* patterns carry the i flag)
CorporateSuffixes == {<<"i","n","c">>,
                      <<"l","l","c">>,
                      <<"l","t","d">>,
                      <<"c","o","r","p">>,
                      <<"c","o","r","p","o","r","a","t","i","o","n">>,
                      <<"c","o","m","p","a","n","y">>,
                      <<"c","o">>,
                      <<"p","l","c">>,
                      <<"g","m","b","h">>,
                      <<"s","a">>,
                      <<"a","g">>}
PharmaSuffixes == {<<"p","h","a","r","m","a","c","e","u","t","i","c","a","l","s">>,
                   <<"p","h","a","r","m","a","c","e","u","t","i","c","a","l">>,
                   <<"p","h","a","r","m","a">>,
                   <<"b","i","o","t","e","c","h">>,
                   <<"t","h","e","r","a","p","e","u","t","i","c","s">>,
                   <<"t","h","e","r","a","p","e","u","t","i","c">>,
                   <<"s","c","i","e","n","c","e","s">>,
                   <<"s","c","i","e","n","c","e">>,
                   <<"l","a","b","o","r","a","t","o","r","i","e","s">>,
                   <<"l","a","b","o","r","a","t","o","r","i","e">>,
                   <<"l","a","b","s">>,
                   <<"l","a","b">>}

\* the words of `words` that end s, once `dots` (0..maxDots) trailing dots are
\* set aside
SuffixHits(s, words, maxDots) ==
    {<<w, d>> \in words \X (0..maxDots) :
        /\ d <= Len(s)
        /\ \A i \in (Len(s) - d + 1)..Len(s) : s[i] = "."
        /\ EndsWith(toLowerCase(SubSeq(s, 1, Len(s) - d)), w)}

\* The text left of the leftmost match of  \s*((?:,\s*)?(?:w1|w2|...)\.?\.?)$ :
\* the match starts leftmost, so the longest ending word with the most dots
\* wins; before it the pattern takes white space, then (withComma) one comma
\* and the white space before it.
LongestHit(hits) ==
    CHOOSE h \in hits : \A g \in hits : Len(g[1]) + g[2] <= Len(h[1]) + h[2]

DropComma(sp, withComma) ==
    IF withComma /\ sp # <<>> /\ sp[Len(sp)] = ","
    THEN TrimRight(SubSeq(sp, 1, Len(sp) - 1))
    ELSE sp

CutBefore(s, h, withComma) ==
    DropComma(TrimRight(SubSeq(s, 1, Len(s) - Len(h[1]) - h[2])), withComma)

StripSuffix(s, words, maxDots, withComma) ==
    LET Strip(hits) == IF hits = {} THEN s
                       ELSE CutBefore(s, LongestHit(hits), withComma)
    IN  Strip(SuffixHits(s, words, maxDots))

\* cleanCompanyName: 'Unknown Company' for no name; else trim, collapse white
\* space, strip trailing punctuation, strip one corporate and one pharma
\* suffix, and keep the stripped name unless it is shorter than 3 characters.
UnknownCompany == <<"U","n","k","n","o","w","n"," ","C","o","m","p","a","n","y">>

cleanCompanyName(name) ==
    LET Keep(n0, baseName) == IF Len(baseName) < 3 THEN n0 ELSE baseName
        StripBoth(n0) == Keep(n0, trim(StripSuffix(StripSuffix(n0, CorporateSuffixes, 2, TRUE),
                                               PharmaSuffixes, 1, FALSE)))
    IN  IF name = <<>> THEN UnknownCompany
        ELSE StripBoth(StripTrailingPunct(CollapseSpaces(trim(name))))

(***************************************************************************)
(* string-similarity (the library final.js requires at line 14):           *)
(* compareTwoStrings is the Dice coefficient of the two strings' bigrams.  *)
(* A rating is the exact fraction <<numerator, denominator>>.              *)
(***************************************************************************)
Bigrams(s) == [i \in 1..(Len(s) - 1) |-> <<s[i], s[i + 1]>>]

RemoveAt(s, i) == SubSeq(s, 1, i - 1) \o SubSeq(s, i + 1, Len(s))

\* the bigrams of `second` matched, each against a bigram of `first` not yet used
RECURSIVE IntersectionSize(_, _)
IntersectionSize(first, second) ==
    IF second = <<>> THEN 0
    ELSE IF \E i \in DOMAIN first : first[i] = Head(second)
         THEN 1 + IntersectionSize(
                     RemoveAt(first, CHOOSE i \in DOMAIN first : first[i] = Head(second)),
                     Tail(second))
         ELSE IntersectionSize(first, Tail(second))

compareTwoStrings(a, b) ==
    LET Dice(first, second) ==
            IF first = second THEN <<1, 1>>
            ELSE IF Len(first) < 2 \/ Len(second) < 2 THEN <<0, 1>>
            ELSE <<2 * IntersectionSize(Bigrams(first), Bigrams(second)),
                   Len(first) + Len(second) - 2>>
    IN  Dice(RemoveSpaces(a), RemoveSpaces(b))

(***************************************************************************)
(* Fetched data.  A raw item is what a source lists: `name` is the text    *)
(* the title patterns of extractFromTitle capture from its title (<<>>: no *)
(* pattern matches), `link` its URL, `date` its publication day, `type`    *)
(* the first type the classifier gives it.  No link of the model is an     *)
(* fda.gov URL and no item has body text, so extraction is by title.       *)
(***************************************************************************)
PfizerInc   == <<"P","f","i","z","e","r"," ","I","n","c",".">>
PFIZER      == <<"P","F","I","Z","E","R">>
PfizerCInc  == <<"P","f","i","z","e","r",","," ","I","n","c">>
PfizerInk   == <<"P","f","i","z","e","r"," ","I","n","k">>
TBD         == <<"T","B","D">>

LinkA  == <<"/","a">>
LinkAx == <<"/","A","?","x">>
LinkB  == <<"/","b">>
LinkD  == <<"/","d">>
LinkDs == <<"/","D","#","s">>

\* the day the server starts, and the days the items are dated
StartDay  == 1000
OldDay    == 100
MidDay    == 700
RecentDay == 990

RawItems == {
    [name |-> PfizerInc,  link |-> LinkA,  date |-> RecentDay, type |-> "warning_letter"],
    [name |-> PFIZER,     link |-> LinkAx, date |-> MidDay,    type |-> "crl"],
    [name |-> PfizerCInc, link |-> LinkB,  date |-> OldDay,    type |-> "form_483"],
    [name |-> PfizerInk,  link |-> LinkD,  date |-> RecentDay, type |-> "crl"],
    [name |-> <<>>,       link |-> LinkDs, date |-> MidDay,    type |-> "regulatory_news"] }


(***************************************************************************)
(* The string functions, tabulated once over the names and links that the  *)
(* items above can give rise to (a name outside the tables is computed).   *)
(***************************************************************************)
RawNames == {r.name : r \in RawItems} \ {<<>>}

\* the names resolution can meet: the captured texts, their cleaned forms, the
\* canonical names the table gives them, the sentinels, and their title cases
WithKnown(S) ==
    S \cup {KnownEntry(k).canonical : k \in {normalizeForMatching(n) : n \in S} \cap KnownKeys}

WithTitle(S) == S \cup {titleCase(n) : n \in S}

NameUniverse ==
    WithTitle(WithKnown(RawNames \cup {cleanCompanyName(n) : n \in RawNames}
                                 \cup {UnknownCompany, TBD}))

NormTable == [n \in NameUniverse |-> normalizeForMatching(n)]
TitleTable == [n \in NameUniverse |-> titleCase(n)]
CleanTable == [n \in RawNames |-> cleanCompanyName(n)]
RatingTable ==
    LET Pairs(S) == S \X S
    IN  [p \in Pairs({NormTable[n] : n \in DOMAIN NormTable}) |->
            compareTwoStrings(p[1], p[2])]

Norm(n) == IF n \in DOMAIN NormTable THEN NormTable[n] ELSE normalizeForMatching(n)
Title(n) == IF n \in DOMAIN TitleTable THEN TitleTable[n] ELSE titleCase(n)
Clean(n) == IF n \in DOMAIN CleanTable THEN CleanTable[n] ELSE cleanCompanyName(n)
Rating(a, b) ==
    IF <<a, b>> \in DOMAIN RatingTable THEN RatingTable[<<a, b>>] ELSE compareTwoStrings(a, b)

RatingGreater(r, q) == r[1] * q[2] > q[1] * r[2]

\* findBestMatch(mainString, targetStrings): every target is rated, and
\* bestMatch is the first target of the highest rating (a later target
\* replaces the best only if it is rated strictly higher)
Ratings(main, targets) == [i \in DOMAIN targets |-> Rating(main, targets[i])]

RECURSIVE BestMatchIndex(_, _, _)
BestMatchIndex(ratings, i, best) ==
    IF i > Len(ratings) THEN best
    ELSE IF RatingGreater(ratings[i], ratings[best])
         THEN BestMatchIndex(ratings, i + 1, i)
         ELSE BestMatchIndex(ratings, i + 1, best)

findBestMatch(main, targets) ==
    LET At(ratings, b) == [target |-> targets[b], rating |-> ratings[b]]
        Best(ratings) == At(ratings, BestMatchIndex(ratings, 1, 1))
    IN  Best(Ratings(main, targets))

\* rating > 0.85
FuzzyPercent == 85
AboveThreshold(r) == r[1] * 100 > FuzzyPercent * r[2]

(***************************************************************************)
(* The registry: `cs` is this.companies (a Map, so a sequence of records   *)
(* in insertion order, keyed by name), `al` is this.companyAliases (a Map  *)
(* from matchKey to company name, as a function).                          *)
(***************************************************************************)
CompanyNames(cs) == [i \in DOMAIN cs |-> cs[i].name]

HasCompany(cs, n) == \E i \in DOMAIN cs : cs[i].name = n

CompanyIndex(cs, n) == CHOOSE i \in DOMAIN cs : cs[i].name = n

\* the fuzzy step of findCanonicalName over the names `all` of the registry:
\* <<the first name whose normal form is the best match>> if the best match
\* is rated above the threshold, else <<>>
FuzzyMatch(all, normalized) ==
    LET Matched(targets, best) ==
            IF AboveThreshold(best.rating)
            THEN <<all[CHOOSE i \in DOMAIN all :
                          /\ targets[i] = best.target
                          /\ \A j \in 1..(i - 1) : targets[j] # best.target]>>
            ELSE <<>>
        Against(targets) == Matched(targets, findBestMatch(normalized, targets))
    IN  Against([i \in DOMAIN all |-> Norm(all[i])])

\* findCanonicalName: known table, then alias index, then fuzzy match against
\* the names in the registry, then the title-cased name itself
findCanonicalName(cs, al, name) ==
    LET OrTitle(m) == IF m # <<>> THEN m[1] ELSE Title(name)
        Resolve(normalized) ==
            IF normalized \in KnownKeys THEN KnownEntry(normalized).canonical
            ELSE IF normalized \in DOMAIN al THEN al[normalized]
            ELSE IF Len(cs) > 0 THEN OrTitle(FuzzyMatch(CompanyNames(cs), normalized))
            ELSE OrTitle(<<>>)
    IN  Resolve(Norm(name))

(***************************************************************************)
(* Classifier severities and the scores                                    *)
(***************************************************************************)
\* CLASSIFIERS[type].severity
ClassifierTypes == {"warning_letter", "crl", "form_483", "opdp", "import_alert",
                    "consent_decree", "recall", "clinical_hold"}

CLASSIFIERS == [t \in ClassifierTypes |->
    CASE t = "warning_letter" -> 8
      [] t = "crl"            -> 9
      [] t = "form_483"       -> 6
      [] t = "opdp"           -> 5
      [] t = "import_alert"   -> 7
      [] t = "consent_decree" -> 10
      [] t = "recall"         -> 7
      [] t = "clinical_hold"  -> 8]

\* CLASSIFIERS[item.types[0]]?.severity || 5
DefaultSeverity == 5
ViolationSeverity(type) ==
    IF type \in ClassifierTypes THEN CLASSIFIERS[type] ELSE DefaultSeverity

\* the trailing windows of the two scores, in days
TwoYearsDays == 730
SixMonthsDays == 182
MonthDays == 30

Min(a, b) == IF a < b THEN a ELSE b
Max(a, b) == IF a > b THEN a ELSE b

(***************************************************************************)
(* Classification                                                          *)
(***************************************************************************)
\* String.prototype.includes
Includes(s, w) == \E i \in 0..(Len(s) - Len(w)) : SubSeq(s, i + 1, i + Len(w)) = w

\* Object.entries(CLASSIFIERS): the types in source order
ClassifierOrder == <<"warning_letter", "crl", "form_483", "opdp", "import_alert",
                     "consent_decree", "recall", "clinical_hold">>

\* CLASSIFIERS[type].keywords, as written
Keywords == [t \in ClassifierTypes |->
    CASE t = "warning_letter" ->
           <<<<"w","a","r","n","i","n","g"," ","l","e","t","t","e","r">>,
             <<"F","D","A"," ","w","a","r","n","s">>,
             <<"r","e","g","u","l","a","t","o","r","y"," ","w","a","r","n","i","n","g">>,
             <<"u","n","t","i","t","l","e","d"," ","l","e","t","t","e","r">>>>
      [] t = "crl" ->
           <<<<"c","o","m","p","l","e","t","e"," ","r","e","s","p","o","n","s","e"," ","l","e","t","t","e","r">>,
             <<"C","R","L">>,
             <<"F","D","A"," ","r","e","j","e","c","t","s">>,
             <<"a","p","p","r","o","v","a","l"," ","d","e","n","i","a","l">>,
             <<"d","e","f","i","c","i","e","n","c","y"," ","l","e","t","t","e","r">>>>
      [] t = "form_483" ->
           <<<<"f","o","r","m"," ","4","8","3">>,
             <<"4","8","3"," ","o","b","s","e","r","v","a","t","i","o","n","s">>,
             <<"i","n","s","p","e","c","t","i","o","n"," ","o","b","s","e","r","v","a","t","i","o","n","s">>,
             <<"F","D","A"," ","i","n","s","p","e","c","t","i","o","n">>>>
      [] t = "opdp" ->
           <<<<"O","P","D","P">>,
             <<"u","n","t","i","t","l","e","d"," ","l","e","t","t","e","r">>,
             <<"p","r","o","m","o","t","i","o","n","a","l">>,
             <<"m","i","s","l","e","a","d","i","n","g"," ","c","l","a","i","m","s">>,
             <<"f","a","l","s","e"," ","a","d","v","e","r","t","i","s","i","n","g">>>>
      [] t = "import_alert" ->
           <<<<"i","m","p","o","r","t"," ","a","l","e","r","t">>,
             <<"D","W","P","E">>,
             <<"d","e","t","e","n","t","i","o","n"," ","w","i","t","h","o","u","t"," ","p","h","y","s","i","c","a","l"," ","e","x","a","m","i","n","a","t","i","o","n">>,
             <<"i","m","p","o","r","t"," ","b","a","n">>>>
      [] t = "consent_decree" ->
           <<<<"c","o","n","s","e","n","t"," ","d","e","c","r","e","e">>,
             <<"p","e","r","m","a","n","e","n","t"," ","i","n","j","u","n","c","t","i","o","n">>,
             <<"c","o","u","r","t"," ","o","r","d","e","r">>>>
      [] t = "recall" ->
           <<<<"r","e","c","a","l","l">>,
             <<"v","o","l","u","n","t","a","r","y"," ","r","e","c","a","l","l">>,
             <<"m","a","r","k","e","t"," ","w","i","t","h","d","r","a","w","a","l">>,
             <<"s","a","f","e","t","y"," ","a","l","e","r","t">>>>
      [] t = "clinical_hold" ->
           <<<<"c","l","i","n","i","c","a","l"," ","h","o","l","d">>,
             <<"s","t","u","d","y"," ","h","a","l","t">>,
             <<"t","r","i","a","l"," ","s","u","s","p","e","n","s","i","o","n">>>>]

\* config.keywords.some(keyword => text.includes(keyword))
SomeKeyword(t, text) == \E k \in DOMAIN Keywords[t] : Includes(text, Keywords[t][k])

\* the severity of the first of the types
FirstSeverity(types) == IF types = <<>> THEN 0 ELSE CLASSIFIERS[types[1]]

\* maxSeverity: Math.max over the types pushed, from 0
RECURSIVE MaxSeverity(_)
MaxSeverity(types) ==
    IF types = <<>> THEN 0 ELSE Max(CLASSIFIERS[Head(types)], MaxSeverity(Tail(types)))

\* classifyItem(title, content)
classifyItem(title, content) ==
    LET Result(types) == [types    |-> IF Len(types) > 0 THEN types
                                       ELSE <<"regulatory_news">>,
                          severity |-> MaxSeverity(types)]
        MatchedTypes(text) == SelectSeq(ClassifierOrder, LAMBDA t : SomeKeyword(t, text))
    IN  Result(MatchedTypes(toLowerCase(title \o <<" ">> \o content)))


RECURSIVE SumSeverity(_)
SumSeverity(vs) == IF vs = <<>> THEN 0 ELSE Head(vs).severity + SumSeverity(Tail(vs))

\* Math.round of the non-negative fraction num/den
RoundFraction(num, den) == (2 * num + den) \div (2 * den)

\* calculateRiskScore, at time `now`.  With n recent violations of severity sum
\* S, M = max(30, days since first_seen) and R violation types seen more than
\* once, the source's score is
\*    min(10n,30)*0.3 + (S/n)*10*0.3 + min(50*n/(M/30), 20)*0.2 + R*5*0.1
\* (response_times is never filled, so its term is 0); it is computed here over
\* the common denominator 10*n*M and then rounded and capped at 100.
calculateRiskScore(company, now) ==
    LET recent == SelectSeq(company.violations, LAMBDA v : v.date > now - TwoYearsDays)
        n      == Len(recent)
        S      == SumSeverity(recent)
        M      == Max(MonthDays, now - company.first_seen)
        types  == {recent[i].type : i \in DOMAIN recent}
        R      == Cardinality({t \in types :
                      Cardinality({i \in DOMAIN recent : recent[i].type = t}) > 1})
        freqX  == IF 50 * MonthDays * n >= 20 * M
                  THEN 40 * n * M                 \* 20 * 0.2, capped
                  ELSE 100 * MonthDays * n * n    \* (50 * n * 30 / M) * 0.2
        num    == 3 * Min(10 * n, 30) * n * M + 30 * S * M + freqX + 5 * R * n * M
    IN  IF n = 0 THEN 0 ELSE Min(100, RoundFraction(num, 10 * n * M))

\* calculateComplianceScore without the final Math.max(0, ...)
calculateComplianceScoreUnclamped(company, now) ==
    LET recent == SelectSeq(company.violations, LAMBDA v : v.date > now - SixMonthsDays)
        n      == Len(recent)
        high   == Cardinality({i \in DOMAIN recent : recent[i].severity >= 8})
        mid    == Cardinality({i \in DOMAIN recent :
                                   recent[i].severity >= 6 /\ recent[i].severity < 8})
        score  == 100 - 5 * n - 10 * high - 5 * mid
    IN  IF n = 0 THEN Min(100, score + 10) ELSE score

\* calculateComplianceScore, at time `now`
calculateComplianceScore(company, now) ==
    LET recent == SelectSeq(company.violations, LAMBDA v : v.date > now - SixMonthsDays)
        n      == Len(recent)
        high   == Cardinality({i \in DOMAIN recent : recent[i].severity >= 8})
        mid    == Cardinality({i \in DOMAIN recent :
                                   recent[i].severity >= 6 /\ recent[i].severity < 8})
        score  == 100 - 5 * n - 10 * high - 5 * mid
    IN  Max(0, IF n = 0 THEN Min(100, score + 10) ELSE score)

(***************************************************************************)
(* The registry upsert                                                     *)
(***************************************************************************)
\* company.violations.sort((a, b) => new Date(b.date) - new Date(a.date)) :
\* a stable sort, newest first.  An element goes to the place after the
\* elements of a later date and the elements of its date that stood before it.
SortByDateDesc(vs) ==
    LET Place(pos) == [p \in 1..Len(vs) |-> vs[CHOOSE i \in 1..Len(vs) : pos[i] = p]]
    IN  Place([i \in 1..Len(vs) |->
                  1 + Cardinality({j \in 1..Len(vs) :
                                      \/ vs[j].date > vs[i].date
                                      \/ vs[j].date = vs[i].date /\ j < i})])

\* "Keep only last 100 violations"
RetentionCap == 100

\* a check that finds no violation, as the comparison of a field the records
\* lack would
ViolationNeverExists(company, link) == FALSE

\* company.violations.some(v => v.link === violation.link)
ViolationExists(company, link) ==
    \E i \in DOMAIN company.violations : company.violations[i].link = link

InSeq(s, x) == \E i \in DOMAIN s : s[i] = x

\* the record set without the has() test before it
EnsureCompanyUnchecked(cs, companyName, item, now) ==
    Append(cs, [name             |-> companyName,
                aliases          |-> <<item.company>>,
                violations       |-> <<>>,
                risk_score       |-> 0,
                compliance_score |-> 100,
                first_seen       |-> now])

\* this.companies.set(companyName, {...}) unless the registry has the name
EnsureCompany(cs, companyName, item, now) ==
    IF HasCompany(cs, companyName) THEN cs
    ELSE Append(cs, [name             |-> companyName,
                     aliases          |-> <<item.company>>,
                     violations       |-> <<>>,
                     risk_score       |-> 0,
                     compliance_score |-> 100,
                     first_seen       |-> now])

\* "Add alias if new": the alias list of the company, and the alias index
AddAlias(company, item) ==
    IF InSeq(company.aliases, item.company) THEN company
    ELSE [company EXCEPT !.aliases = Append(@, item.company)]

IndexAlias(al, company, item, companyName) ==
    LET Put(key) == [x \in DOMAIN al \cup {key} |-> IF x = key THEN companyName ELSE al[x]]
    IN  IF InSeq(company.aliases, item.company) THEN al
        ELSE Put(Norm(item.company))

\* "Create violation record"
Violation(item) ==
    [link     |-> item.link,
     date     |-> item.date,
     type     |-> item.type,
     severity |-> ViolationSeverity(item.type)]

\* the retention that keeps the last entries of the sorted list
AddViolationKeepingLast(company, violation, now) ==
    LET Rescore(c) == [c EXCEPT !.risk_score = calculateRiskScore(c, now),
                                !.compliance_score = calculateComplianceScore(c, now)]
        Retain(sorted) ==
            Rescore([company EXCEPT !.violations =
                        IF Len(sorted) > RetentionCap
                        THEN SubSeq(sorted, Len(sorted) - RetentionCap + 1, Len(sorted))
                        ELSE sorted])
    IN  Retain(SortByDateDesc(Append(company.violations, violation)))

\* push, sort, "Keep only last 100 violations", "Update scores"
AddViolation(company, violation, now) ==
    LET Rescore(c) == [c EXCEPT !.risk_score = calculateRiskScore(c, now),
                                !.compliance_score = calculateComplianceScore(c, now)]
        Retain(sorted) ==
            Rescore([company EXCEPT !.violations =
                        IF Len(sorted) > RetentionCap THEN SubSeq(sorted, 1, RetentionCap)
                        ELSE sorted])
    IN  Retain(SortByDateDesc(Append(company.violations, violation)))

\* updateCompany(item) at time `now`, on registry (cs, al): the registry after
\* the call, the name the item was filed under, and the value the returned
\* promise resolves to (true iff a violation record was added).
updateCompany(cs, al, item, now) ==
    LET Outcome(companyName, cs1, k, c1, exists) ==
            [companies      |-> [cs1 EXCEPT ![k] =
                                    IF exists THEN c1
                                    ELSE AddViolation(c1, Violation(item), now)],
             companyAliases |-> IndexAlias(al, cs1[k], item, companyName),
             company        |-> companyName,
             isNew          |-> ~exists]
        OnCompany(companyName, cs1, k, c1) ==
            Outcome(companyName, cs1, k, c1, ViolationExists(c1, item.link))
        AtIndex(companyName, cs1, k) == OnCompany(companyName, cs1, k, AddAlias(cs1[k], item))
        InRegistry(companyName, cs1) == AtIndex(companyName, cs1, CompanyIndex(cs1, companyName))
        Upsert(companyName) ==
            CHOOSE r \in {InRegistry(companyName, cs1) :
                              cs1 \in {EnsureCompany(cs, companyName, item, now)}} : TRUE
    IN  CHOOSE r \in {Upsert(companyName) :
                          companyName \in {findCanonicalName(cs, al, item.company)}} : TRUE

(***************************************************************************)
(* Persistence of the registry                                             *)
(***************************************************************************)
\* Array.from(x): the elements in order
ArrayFrom(x) == [i \in 1..Len(x) |-> x[i]]

\* save(): what is written to DATA_FILES.COMPANIES, the company records in map
\* order with their aliases as an array
save(cs) ==
    [k \in 1..Len(cs) |->
        [name             |-> cs[k].name,
         aliases          |-> ArrayFrom(cs[k].aliases),
         violations       |-> cs[k].violations,
         risk_score       |-> cs[k].risk_score,
         compliance_score |-> cs[k].compliance_score,
         first_seen       |-> cs[k].first_seen]]

\* this.companies.set(c.name, c)
SetCompany(cs, c) ==
    IF HasCompany(cs, c.name) THEN [cs EXCEPT ![CompanyIndex(cs, c.name)] = c]
    ELSE Append(cs, c)

\* c.aliases.forEach(alias => this.companyAliases.set(normalizeForMatching(alias), c.name))
RECURSIVE SetAliases(_, _, _)
SetAliases(al, aliases, name) ==
    IF aliases = <<>> THEN al
    ELSE SetAliases([x \in DOMAIN al \cup {Norm(Head(aliases))} |->
                        IF x = Norm(Head(aliases)) THEN name ELSE al[x]],
                    Tail(aliases), name)

\* initialize() on the content `data` of DATA_FILES.COMPANIES, from the maps
\* (cs, al): the maps after it
RECURSIVE initialize(_, _, _)
initialize(cs, al, data) ==
    IF data = <<>> THEN [companies |-> cs, companyAliases |-> al]
    ELSE initialize(SetCompany(cs, Head(data)),
                    SetAliases(al, Head(data).aliases, Head(data).name),
                    Tail(data))

(***************************************************************************)
(* Extraction                                                              *)
(***************************************************************************)
\* extractFromTitle: the captured text, cleaned; null (<<>>) without a match
extractFromTitle(raw) == IF raw.name = <<>> THEN <<>> ELSE Clean(raw.name)

\* extractCompanyName(title, content, link, source) with this.matchingCache =
\* cache: the name returned and the cache afterwards
extractCompanyName(cache, cs, al, raw) ==
    LET cacheKey == <<raw.name, raw.link>>
        Canonical(extracted) ==
            IF extracted # <<>> /\ extracted # UnknownCompany
            THEN findCanonicalName(cs, al, extracted)
            ELSE UnknownCompany
        Store(result) ==
            [name  |-> result,
             cache |-> [x \in DOMAIN cache \cup {cacheKey} |->
                           IF x = cacheKey THEN result ELSE cache[x]]]
    IN  IF cacheKey \in DOMAIN cache
        THEN [name |-> cache[cacheKey], cache |-> cache]
        ELSE Store(Canonical(extractFromTitle(raw)))

\* classifyItem(...).severity of an item of one type
ItemSeverity(type) == IF type \in ClassifierTypes THEN CLASSIFIERS[type] ELSE 0

\* fetchFeed / scrapeFDAWarningLetters: every listed item is extracted in turn
\* and becomes an item record; returns the items and the cache afterwards
RECURSIVE FetchItems(_, _, _, _)
FetchItems(cache, cs, al, feed) ==
    LET Item(raw, company) == [title    |-> raw.name,
                               link     |-> raw.link,
                               date     |-> raw.date,
                               company  |-> company,
                               type     |-> raw.type,
                               severity |-> ItemSeverity(raw.type)]
        Join(first, rest) == [items |-> <<first>> \o rest.items, cache |-> rest.cache]
        After(e) == Join(Item(Head(feed), e.name), FetchItems(e.cache, cs, al, Tail(feed)))
    IN  IF feed = <<>> THEN [items |-> <<>>, cache |-> cache]
        ELSE After(extractCompanyName(cache, cs, al, Head(feed)))

(***************************************************************************)
(* De-duplication and upserts of one cycle (phase 3 of aggregateAllSources)*)
(***************************************************************************)
\* item.link.replace(/[?#].*$/, '').toLowerCase()
RECURSIVE StripQuery(_)
StripQuery(link) ==
    IF link = <<>> \/ Head(link) \in {"?", "#"} THEN <<>>
    ELSE <<Head(link)>> \o StripQuery(Tail(link))

\* the cleaned link without .toLowerCase()
cleanLinkCaseKept(link) == StripQuery(link)

cleanLink(link) == toLowerCase(StripQuery(link))

\* the value of `isNew` that phase 3 tests: updateCompany is an async function
\* and the call is not awaited, so isNew is the promise itself, which is truthy
\* whatever it resolves to
IsNewTruthy(resolvesTo) == TRUE

\* the loop of phase 3 run from the last item to the first
RECURSIVE ProcessItemsBackwards(_, _, _)
ProcessItemsBackwards(st, items, now) ==
    LET Upserted(item, cl, u) ==
            [companies      |-> u.companies,
             companyAliases |-> u.companyAliases,
             seenLinks      |-> st.seenLinks \cup {cl},
             uniqueItems    |-> Append(st.uniqueItems, item),
             newViolations  |-> Append(st.newViolations, item),
             added          |-> IF u.isNew THEN Append(st.added, item) ELSE st.added,
             filed          |-> st.filed \cup {<<item.title, u.company>>}]
        Step(item, cl) ==
            IF cl \in st.seenLinks THEN st
            ELSE Upserted(item, cl,
                          updateCompany(st.companies, st.companyAliases, item, now))
    IN  IF items = <<>> THEN st
        ELSE ProcessItemsBackwards(Step(items[Len(items)], cleanLink(items[Len(items)].link)),
                                   SubSeq(items, 1, Len(items) - 1), now)

\* allItems.forEach(...) : st carries companies, companyAliases, seenLinks,
\* uniqueItems, newViolations, and (for the record) `added`, the items for which
\* updateCompany added a violation record, and `filed`, the <<title text,
\* company>> pairs of the upserts
RECURSIVE ProcessItems(_, _, _)
ProcessItems(st, items, now) ==
    LET Upserted(item, cl, u) ==
            [companies      |-> u.companies,
             companyAliases |-> u.companyAliases,
             seenLinks      |-> st.seenLinks \cup {cl},
             uniqueItems    |-> Append(st.uniqueItems, item),
             newViolations  |-> IF IsNewTruthy(u.isNew)
                                THEN Append(st.newViolations, item)
                                ELSE st.newViolations,
             added          |-> IF u.isNew THEN Append(st.added, item)
                                ELSE st.added,
             filed          |-> st.filed \cup {<<item.title, u.company>>}]
        Step(item, cl) ==
            IF cl \in st.seenLinks THEN st
            ELSE CHOOSE r \in {Upserted(item, cl, u) :
                                   u \in {updateCompany(st.companies, st.companyAliases,
                                                        item, now)}} : TRUE
    IN  IF items = <<>> THEN st
        ELSE CHOOSE r \in {ProcessItems(st1, Tail(items), now) :
                               st1 \in {Step(Head(items), cleanLink(Head(items).link))}} : TRUE

\* uniqueItems.sort: severity descending, then date descending (stable)
RECURSIVE InsertBySeverity(_, _)
InsertBySeverity(sorted, it) ==
    IF sorted = <<>> THEN <<it>>
    ELSE IF \/ Head(sorted).severity > it.severity
            \/ Head(sorted).severity = it.severity /\ Head(sorted).date >= it.date
         THEN <<Head(sorted)>> \o InsertBySeverity(Tail(sorted), it)
         ELSE <<it>> \o sorted

RECURSIVE SortItems(_)
SortItems(items) ==
    IF items = <<>> THEN <<>>
    ELSE InsertBySeverity(SortItems(SubSeq(items, 1, Len(items) - 1)), items[Len(items)])

(***************************************************************************)
(* State                                                                   *)
(***************************************************************************)
VARIABLES
    companies,          \* companyIntel.companies
    companyAliases,     \* companyIntel.companyAliases
    matchingCache,      \* companyIntel.matchingCache
    refreshInProgress,  \* global.refreshInProgress
    cycles,             \* the calls of aggregateAllSources in progress, oldest first
    started,            \* how many calls have been started
    startupDone,        \* start() has made its initial call
    now,                \* the clock, in days
    world,              \* what the sources list at the moment, newest first
    filed,              \* record: <<title text, company>> of every upsert made
    lastFeed,           \* record: what the last cycle to run phase 3 had fetched
    stored,             \* the content of DATA_FILES.COMPANIES
    running,            \* the process has not exited
    patterns,           \* this.patterns, as detectPatterns leaves it
    classified,         \* record: the last call of classifyItem and its result
    aiCache,            \* companyIntel.aiCache: item.company -> canonical_company_name
    storedAi,           \* the content of DATA_FILES.AI_CACHE
    feedCall            \* the call of fetchFeed in progress, and a record of its attempts

vars == <<companies, companyAliases, matchingCache, refreshInProgress, cycles, started,
          startupDone, now, world, filed, lastFeed, stored, running, patterns, classified, aiCache, storedAi, feedCall>>

EmptyMap == [x \in {} |-> <<>>]

\* no call of fetchFeed in progress
NoFeedCall == [pc |-> "idle", attempt |-> 0, results |-> <<>>, outcomes |-> <<>>, got |-> <<>>]

RECURSIVE TotalViolations(_)
TotalViolations(cs) ==
    IF cs = <<>> THEN 0 ELSE Len(Head(cs).violations) + TotalViolations(Tail(cs))

\* <<number of Company records, total number of violation records>>
RegistrySize(cs) == <<Len(cs), TotalViolations(cs)>>

\* no pattern has been detected
NoPatterns == [hotspots |-> <<>>, escalating |-> <<>>, repeat_offenders |-> <<>>]

\* the registry and files are empty before the first start; the server has
\* scheduled its tasks and is listening
Init ==
    /\ companies = <<>>
    /\ companyAliases = EmptyMap
    /\ matchingCache = EmptyMap
    /\ refreshInProgress = FALSE
    /\ cycles = <<>>
    /\ started = 0
    /\ startupDone = FALSE
    /\ now = StartDay
    /\ world = <<>>
    /\ filed = {}
    /\ lastFeed = <<>>
    /\ stored = <<>>
    /\ running = TRUE
    /\ patterns = NoPatterns
    /\ classified = <<>>
    /\ aiCache = EmptyMap
    /\ storedAi = EmptyMap
    /\ feedCall = NoFeedCall

(***************************************************************************)
(* The sources: an item is published at the head of the listing           *)
(***************************************************************************)
Publish(x) ==
    /\ ~InSeq(world, x)
    /\ world' = <<x>> \o world
    /\ UNCHANGED <<companies, companyAliases, matchingCache, refreshInProgress, cycles,
                   started, startupDone, now, filed, lastFeed,
                   stored, running, patterns, classified, aiCache, storedAi, feedCall>>

(***************************************************************************)
(* Triggers: each starts a call of aggregateAllSources                     *)
(***************************************************************************)
NewCycle(trigger) ==
    [trigger |-> trigger, pc |-> "fetch", feed |-> <<>>, allItems |-> <<>>,
     uniqueItems |-> <<>>, newViolations |-> <<>>, added |-> <<>>, again |-> FALSE,
     saved |-> FALSE]

\* start(): "Initial data fetch"; the flag is neither read nor written
StartupRun ==
    /\ ~startupDone
    /\ startupDone' = TRUE
    /\ started' = started + 1
    /\ cycles' = Append(cycles, NewCycle("startup"))
    /\ UNCHANGED <<companies, companyAliases, matchingCache, refreshInProgress,
                   now, world, filed, lastFeed,
                   stored, running, patterns, classified, aiCache, storedAi, feedCall>>

\* setupScheduledTasks: the 30-minute task reads the flag and never writes it
CronTick ==
    /\ ~refreshInProgress
    /\ started' = started + 1
    /\ cycles' = Append(cycles, NewCycle("cron"))
    /\ UNCHANGED <<companies, companyAliases, matchingCache, refreshInProgress,
                   startupDone, now, world, filed, lastFeed,
                   stored, running, patterns, classified, aiCache, storedAi, feedCall>>

\* POST /api/refresh with body {force}: refused while the flag is set, unless
\* forced; the refusal is a response and changes nothing
RefreshRejected ==
    /\ refreshInProgress
    /\ UNCHANGED vars

RefreshRequest(force) ==
    /\ ~refreshInProgress \/ force
    /\ refreshInProgress' = TRUE
    /\ started' = started + 1
    /\ cycles' = Append(cycles, NewCycle("refresh"))
    /\ UNCHANGED <<companies, companyAliases, matchingCache, startupDone, now,
                   world, filed, lastFeed,
                   stored, running, patterns, classified, aiCache, storedAi, feedCall>>

(***************************************************************************)
(* One call of aggregateAllSources, cut at its awaits                      *)
(***************************************************************************)
\* phases 1 and 2: the sources are fetched and every item extracted (the
\* registry is read, the cache written)
Fetch(i) ==
    /\ i \in DOMAIN cycles
    /\ cycles[i].pc = "fetch"
    /\ \E f \in {FetchItems(matchingCache, companies, companyAliases, world)} :
           /\ matchingCache' = f.cache
           /\ cycles' = [cycles EXCEPT ![i].pc = "process",
                                       ![i].feed = world,
                                       ![i].allItems = f.items]
    /\ UNCHANGED <<companies, companyAliases, refreshInProgress, started, startupDone,
                   now, world, filed, lastFeed,
                   stored, running, patterns, classified, aiCache, storedAi, feedCall>>

\* phases 3 and 4, which hold no await: de-duplicate, upsert, sort (`again`
\* records that the cycle before it had fetched the same data)
Process(i) ==
    /\ i \in DOMAIN cycles
    /\ cycles[i].pc = "process"
    /\ \E st \in {ProcessItems([companies      |-> companies,
                                companyAliases |-> companyAliases,
                                seenLinks      |-> {},
                                uniqueItems    |-> <<>>,
                                newViolations  |-> <<>>,
                                added          |-> <<>>,
                                filed          |-> filed],
                               cycles[i].allItems, now)} :
           /\ companies' = st.companies
           /\ companyAliases' = st.companyAliases
           /\ filed' = st.filed
           /\ cycles' = [cycles EXCEPT ![i].pc = "save",
                                       ![i].uniqueItems = SortItems(st.uniqueItems),
                                       ![i].newViolations = st.newViolations,
                                       ![i].added = st.added,
                                       ![i].again = (cycles[i].feed = lastFeed)]
           /\ lastFeed' = cycles[i].feed
    /\ UNCHANGED <<matchingCache, refreshInProgress, started, startupDone, now, world,
                   stored, running, patterns, classified, aiCache, storedAi, feedCall>>

\* "Saving Data" (the item files and companyIntel.save()), then
\* processInstantNotifications(newViolations) if there are any
Save(i) ==
    /\ i \in DOMAIN cycles
    /\ cycles[i].pc = "save"
    /\ stored' = save(companies)
    /\ storedAi' = aiCache
    /\ cycles' = [cycles EXCEPT ![i].pc = "return", ![i].saved = TRUE]
    /\ UNCHANGED <<companies, companyAliases, matchingCache, refreshInProgress, started,
                   startupDone, now, world, filed, lastFeed, running, patterns, classified,
                   aiCache, feedCall>>

\* the call returns and the flag is left as it is
FinishKeepingFlag(i) ==
    /\ i \in DOMAIN cycles
    /\ cycles[i].pc = "return"
    /\ cycles' = SubSeq(cycles, 1, i - 1) \o SubSeq(cycles, i + 1, Len(cycles))
    /\ UNCHANGED <<companies, companyAliases, matchingCache, refreshInProgress, started,
                   startupDone, now, world, filed, lastFeed,
                   stored, running, patterns, classified, aiCache, storedAi, feedCall>>

\* the call returns; POST /api/refresh then clears the flag
Finish(i) ==
    /\ i \in DOMAIN cycles
    /\ cycles[i].pc = "return"
    /\ refreshInProgress' = IF cycles[i].trigger = "refresh" THEN FALSE
                            ELSE refreshInProgress
    /\ cycles' = SubSeq(cycles, 1, i - 1) \o SubSeq(cycles, i + 1, Len(cycles))
    /\ UNCHANGED <<companies, companyAliases, matchingCache, started, startupDone,
                   now, world, filed, lastFeed,
                   stored, running, patterns, classified, aiCache, storedAi, feedCall>>

(***************************************************************************)
(* The server: triggers arrive at any time.  MaxCycles bounds the calls    *)
(* started, MaxFeedLen the items listed.                                   *)
(***************************************************************************)
MaxCycles == 2
MaxFeedLen == 2

Next ==
    \/ \E x \in RawItems : Len(world) < MaxFeedLen /\ Publish(x)
    \/ started < MaxCycles /\ StartupRun
    \/ started < MaxCycles /\ CronTick
    \/ RefreshRejected
    \/ \E force \in BOOLEAN : started < MaxCycles /\ RefreshRequest(force)
    \/ \E i \in 1..MaxCycles : Fetch(i)
    \/ \E i \in 1..MaxCycles : Process(i)
    \/ \E i \in 1..MaxCycles : Save(i)
    \/ \E i \in 1..MaxCycles : Finish(i)

Spec == Init /\ [][Next]_vars

(***************************************************************************)
(* The server when every trigger arrives between cycles (or is refused):   *)
(* the cycles run one after the other.                                     *)
(***************************************************************************)
MaxRuns == 3
MaxListed == 3

NextInTurn ==
    \/ \E x \in RawItems : Len(world) < MaxListed /\ Publish(x)
    \/ cycles = <<>> /\ started < MaxRuns /\ StartupRun
    \/ cycles = <<>> /\ started < MaxRuns /\ CronTick
    \/ RefreshRejected
    \/ \E force \in BOOLEAN : cycles = <<>> /\ started < MaxRuns /\ RefreshRequest(force)
    \/ Fetch(1)
    \/ Process(1)
    \/ Save(1)
    \/ Finish(1)

SpecInTurn == Init /\ [][NextInTurn]_vars

(***************************************************************************)
(* The registry under direct upserts: updateCompany is called with one     *)
(* item after the other, each with a link not seen before, while the clock *)
(* advances.  MaxViolations bounds the upserts, MaxTicks the clock steps   *)
(* of TickDays days.                                                       *)
(***************************************************************************)
MaxViolations == 7
MaxTicks == 1
TickDays == 200

\* <<type, dated today?>> of the items upserted: a severity-10 and a severity-6
\* type dated today, and an unclassified type (severity 5) dated OldDay
ScoreChoices == {<<"consent_decree", TRUE>>, <<"form_483", TRUE>>,
                 <<"regulatory_news", FALSE>>}

\* the link of the n-th item upserted
ScoreLink(n) == <<"/", "v">> \o [i \in 1..n |-> "i"]

ScoreItem(choice, n, today) ==
    [title    |-> PfizerInc,
     link     |-> ScoreLink(n),
     date     |-> IF choice[2] THEN today ELSE OldDay,
     company  |-> PfizerInc,
     type     |-> choice[1],
     severity |-> ItemSeverity(choice[1])]

\* companyIntel.updateCompany(item)
Upsert(item) ==
    /\ \E u \in {updateCompany(companies, companyAliases, item, now)} :
           /\ companies' = u.companies
           /\ companyAliases' = u.companyAliases
           /\ filed' = filed \cup {<<item.title, u.company>>}
    /\ UNCHANGED <<matchingCache, refreshInProgress, cycles, started, startupDone, now,
                   world, lastFeed,
                   stored, running, patterns, classified, aiCache, storedAi, feedCall>>

\* time passes
Tick ==
    /\ now' = now + TickDays
    /\ UNCHANGED <<companies, companyAliases, matchingCache, refreshInProgress, cycles,
                   started, startupDone, world, filed, lastFeed,
                   stored, running, patterns, classified, aiCache, storedAi, feedCall>>

NextScore ==
    \/ \E choice \in ScoreChoices :
          /\ TotalViolations(companies) < MaxViolations
          /\ Upsert(ScoreItem(choice, TotalViolations(companies) + 1, now))
    \/ now < StartDay + MaxTicks * TickDays /\ Tick

SpecScore == Init /\ [][NextScore]_vars

(***************************************************************************)
(* The registry under calls of updateCompany with any item, an item with   *)
(* an empty company name included.  MaxCalls bounds the calls.             *)
(***************************************************************************)
MaxCalls == 3

NoName == <<>>

CallItems ==
    {[title    |-> c,
      link     |-> l,
      date     |-> d,
      company  |-> c,
      type     |-> "crl",
      severity |-> ItemSeverity("crl")] :
        c \in {NoName, PfizerInc, PfizerInk}, l \in {LinkA, LinkAx, LinkB},
        d \in {MidDay, RecentDay}}

\* companyIntel.updateCompany(item), the calls counted
Call(item) ==
    /\ \E u \in {updateCompany(companies, companyAliases, item, now)} :
           /\ companies' = u.companies
           /\ companyAliases' = u.companyAliases
           /\ filed' = filed \cup {<<item.title, u.company>>}
    /\ started' = started + 1
    /\ UNCHANGED <<matchingCache, refreshInProgress, cycles, startupDone, now, world,
                   lastFeed,
                   stored, running, patterns, classified, aiCache, storedAi, feedCall>>

NextCall == \E item \in CallItems : started < MaxCalls /\ Call(item)

SpecCall == Init /\ [][NextCall]_vars

(***************************************************************************)
(* The cycles when sources fail.  The items listed belong to two sources,  *)
(* fetched in the order of Sources; a source whose fetch fails (fetchFeed  *)
(* after its last retry, a scraper in its catch) returns no item.  The     *)
(* cycles run one after the other, started by the timer.  MaxFailRuns      *)
(* bounds the calls started, MaxFailListed the items listed.               *)
(***************************************************************************)
Sources == <<"fda_official", "trade_press">>

SourceOf(raw) ==
    IF raw.type \in {"warning_letter", "form_483"} THEN Sources[1] ELSE Sources[2]

\* what source s lists
Listing(w, s) == SelectSeq(w, LAMBDA x : SourceOf(x) = s)

\* the results of the fetches, in source order: [] for a source that failed
GatheredAllOrNothing(w, failed) ==
    IF failed # {} THEN <<>> ELSE Listing(w, Sources[1]) \o Listing(w, Sources[2])

Gathered(w, failed) ==
    LET From(s) == IF s \in failed THEN <<>> ELSE Listing(w, s)
    IN  From(Sources[1]) \o From(Sources[2])

\* phases 1 and 2 with the fetches of the sources in `failed` failing (the
\* cycle records what was listed and what failed)
FetchFrom(i, failed) ==
    /\ i \in DOMAIN cycles
    /\ cycles[i].pc = "fetch"
    /\ \E g \in {Gathered(world, failed)} :
         \E f \in {FetchItems(matchingCache, companies, companyAliases, g)} :
           /\ matchingCache' = f.cache
           /\ cycles' = [cycles EXCEPT ![i] =
                            [trigger |-> @.trigger, pc |-> "process", feed |-> g,
                             allItems |-> f.items, uniqueItems |-> <<>>,
                             newViolations |-> <<>>, added |-> <<>>, again |-> FALSE,
                             saved |-> FALSE, listed |-> world, failed |-> failed]]
    /\ UNCHANGED <<companies, companyAliases, refreshInProgress, started, startupDone,
                   now, world, filed, lastFeed,
                   stored, running, patterns, classified, aiCache, storedAi, feedCall>>

MaxFailRuns == 2
MaxFailListed == 3

NextFail ==
    \/ \E x \in RawItems : Len(world) < MaxFailListed /\ Publish(x)
    \/ cycles = <<>> /\ started < MaxFailRuns /\ CronTick
    \/ \E failed \in SUBSET {Sources[1], Sources[2]} : FetchFrom(1, failed)
    \/ Process(1)
    \/ Save(1)
    \/ Finish(1)

SpecFail == Init /\ [][NextFail]_vars

(***************************************************************************)
(* The cycles when writes fail.  A write of an item file that fails throws *)
(* out of aggregateAllSources, before companyIntel.save() is called: the   *)
(* timer logs the error, POST /api/refresh answers 500 and clears the      *)
(* flag, and start() logs it and exits the process, whose memory is gone.  *)
(* A write that fails inside companyIntel.save() is caught and logged      *)
(* there, and the call goes on.  A process that has exited is started      *)
(* again and loads what was stored.  The cycles run one after the other.   *)
(* MaxSaveRuns bounds the calls started, MaxSaveListed the items listed.   *)
(***************************************************************************)
\* fs.writeFile of DATA_FILES.ALL_ITEMS or of a by-type file rejects
SaveItemsFails(i) ==
    /\ i \in DOMAIN cycles
    /\ cycles[i].pc = "save"
    /\ IF cycles[i].trigger = "startup"
       THEN /\ running' = FALSE
            /\ companies' = <<>>
            /\ companyAliases' = EmptyMap
            /\ matchingCache' = EmptyMap
            /\ aiCache' = EmptyMap
            /\ refreshInProgress' = FALSE
            /\ cycles' = <<>>
       ELSE /\ refreshInProgress' = IF cycles[i].trigger = "refresh" THEN FALSE
                                    ELSE refreshInProgress
            /\ cycles' = SubSeq(cycles, 1, i - 1) \o SubSeq(cycles, i + 1, Len(cycles))
            /\ UNCHANGED <<companies, companyAliases, matchingCache, aiCache, running>>
    /\ UNCHANGED <<started, startupDone, now, world, filed, lastFeed, stored, patterns,
                   classified, storedAi, feedCall>>

\* fs.writeFile of DATA_FILES.COMPANIES rejects inside companyIntel.save()
SaveCompaniesFails(i) ==
    /\ i \in DOMAIN cycles
    /\ cycles[i].pc = "save"
    /\ cycles' = [cycles EXCEPT ![i].pc = "return"]
    /\ UNCHANGED <<companies, companyAliases, matchingCache, refreshInProgress, started,
                   startupDone, now, world, filed, lastFeed, stored, running, patterns, classified, aiCache, storedAi, feedCall>>

\* the process is started again: start() calls companyIntel.initialize()
Restart ==
    /\ ~running
    /\ running' = TRUE
    /\ startupDone' = FALSE
    /\ \E r \in {initialize(<<>>, EmptyMap, stored)} :
           /\ companies' = r.companies
           /\ companyAliases' = r.companyAliases
    /\ aiCache' = storedAi
    /\ UNCHANGED <<matchingCache, refreshInProgress, cycles, started, now, world, filed,
                   lastFeed, stored, patterns, classified, storedAi, feedCall>>

MaxSaveRuns == 3
MaxSaveListed == 2

NextSave ==
    \/ \E x \in RawItems : Len(world) < MaxSaveListed /\ Publish(x)
    \/ running /\ cycles = <<>> /\ started < MaxSaveRuns /\ StartupRun
    \/ running /\ cycles = <<>> /\ started < MaxSaveRuns /\ CronTick
    \/ \E force \in BOOLEAN :
           running /\ cycles = <<>> /\ started < MaxSaveRuns /\ RefreshRequest(force)
    \/ Fetch(1)
    \/ Process(1)
    \/ Save(1)
    \/ SaveItemsFails(1)
    \/ SaveCompaniesFails(1)
    \/ Finish(1)
    \/ Restart

SpecSave == Init /\ [][NextSave]_vars

(***************************************************************************)
(* Pattern detection (src/v3.js, src/advanced.js), on the registry of      *)
(* Company records with their violations {type, date}.  The lists that     *)
(* read the summary text of a violation (manufacturing, clinical,          *)
(* promotional) are not modelled.                                          *)
(***************************************************************************)
\* 90 * 24 * 60 * 60 * 1000 ms, in days
NinetyDays == 90

\* the violations left in the order they are stored in
StoredOrder(vs) == vs

\* company.violations.sort((a, b) => new Date(a.date) - new Date(b.date)) :
\* a stable sort, oldest first
RECURSIVE InsertByDateAsc(_, _)
InsertByDateAsc(sorted, v) ==
    IF sorted = <<>> THEN <<v>>
    ELSE IF Head(sorted).date <= v.date
         THEN <<Head(sorted)>> \o InsertByDateAsc(Tail(sorted), v)
         ELSE <<v>> \o sorted

RECURSIVE SortByDateAsc(_)
SortByDateAsc(vs) ==
    IF vs = <<>> THEN <<>>
    ELSE InsertByDateAsc(SortByDateAsc(SubSeq(vs, 1, Len(vs) - 1)), vs[Len(vs)])

\* every violation taken for a recent one
AllViolations(company, today) == company.violations

\* company.violations.filter(v => Date.now() - new Date(v.date).getTime() < 90 days)
RecentViolations(company, today) ==
    SelectSeq(company.violations, LAMBDA v : today - v.date < NinetyDays)

\* [...new Set(vs.map(v => v.type))]: the types in order of first occurrence
RECURSIVE TypesOf(_, _)
TypesOf(vs, seen) ==
    IF vs = <<>> THEN seen
    ELSE TypesOf(Tail(vs), IF InSeq(seen, Head(vs).type) THEN seen
                           ELSE Append(seen, Head(vs).type))

\* the hotspots entry of a company, if any
Hotspot(company, today) ==
    LET Entry(recent) ==
            IF Len(recent) >= 2
            THEN <<[company |-> company.name, count |-> Len(recent),
                    types |-> TypesOf(recent, <<>>)]>>
            ELSE <<>>
    IN  Entry(RecentViolations(company, today))

\* the escalating entry of a company, if any: the last two of the violations
\* sorted oldest first, both of a type CLASSIFIERS has
Escalating(company) ==
    LET Compare(from, to) ==
            IF /\ from.type \in ClassifierTypes
               /\ to.type \in ClassifierTypes
               /\ CLASSIFIERS[to.type] > CLASSIFIERS[from.type]
            THEN <<[company |-> company.name, from |-> from.type, to |-> to.type]>>
            ELSE <<>>
        LastTwo(sorted) == Compare(sorted[Len(sorted) - 1], sorted[Len(sorted)])
    IN  IF Len(company.violations) >= 2 THEN LastTwo(SortByDateAsc(company.violations))
        ELSE <<>>

\* the repeat_offenders entry of a company, if any (without its risk_score)
RepeatOffender(company) ==
    IF Len(company.violations) >= 3
    THEN <<[company          |-> company.name,
            total_violations |-> Len(company.violations),
            types            |-> TypesOf(company.violations, <<>>)]>>
    ELSE <<>>

\* what the sort inside the escalation check leaves in company.violations
SortedInPlace(company) ==
    IF Len(company.violations) >= 2
    THEN [company EXCEPT !.violations = SortByDateAsc(@)]
    ELSE company

\* detectPatterns() at time `today` on the registry cs: the patterns it
\* returns and the registry it leaves
RECURSIVE detectPatterns(_, _, _, _)
detectPatterns(cs, today, k, acc) ==
    IF k > Len(cs) THEN acc
    ELSE detectPatterns(cs, today, k + 1,
            [hotspots         |-> acc.hotspots \o Hotspot(cs[k], today),
             escalating       |-> acc.escalating \o Escalating(cs[k]),
             repeat_offenders |-> acc.repeat_offenders
                                      \o RepeatOffender(SortedInPlace(cs[k])),
             companies        |-> Append(acc.companies, SortedInPlace(cs[k]))])

NoneDetected ==
    [hotspots |-> <<>>, escalating |-> <<>>, repeat_offenders |-> <<>>, companies |-> <<>>]

\* companyIntel.detectPatterns()
DetectPatterns ==
    /\ \E d \in {detectPatterns(companies, now, 1, NoneDetected)} :
           /\ patterns' = [hotspots         |-> d.hotspots,
                           escalating       |-> d.escalating,
                           repeat_offenders |-> d.repeat_offenders]
           /\ companies' = d.companies
    /\ UNCHANGED <<companyAliases, matchingCache, refreshInProgress, cycles, started,
                   startupDone, now, world, filed, lastFeed, stored, running, classified, aiCache, storedAi, feedCall>>

\* <<company, type, age in days>> of the items upserted
PatternChoices ==
    {<<c, t, a>> : c \in {PfizerInc, PfizerInk},
                   t \in {"form_483", "crl", "regulatory_news"},
                   a \in {0, NinetyDays}}

PatternItem(choice, n, today) ==
    [title    |-> choice[1],
     link     |-> ScoreLink(n),
     date     |-> today - choice[3],
     company  |-> choice[1],
     type     |-> choice[2],
     severity |-> ItemSeverity(choice[2])]

\* time passes
PatternTickDays == 60

Later ==
    /\ now' = now + PatternTickDays
    /\ UNCHANGED <<companies, companyAliases, matchingCache, refreshInProgress, cycles,
                   started, startupDone, world, filed, lastFeed, stored, running,
                   patterns, classified, aiCache, storedAi, feedCall>>

(***************************************************************************)
(* The registry under upserts, the passing of time and calls of            *)
(* detectPatterns.  MaxPatternViolations bounds the violations recorded,   *)
(* MaxPatternTicks the steps of the clock.                                 *)
(***************************************************************************)
MaxPatternViolations == 3
MaxPatternTicks == 1

NextPatterns ==
    \/ \E choice \in PatternChoices :
          /\ TotalViolations(companies) < MaxPatternViolations
          /\ Upsert(PatternItem(choice, TotalViolations(companies) + 1, now))
    \/ now < StartDay + MaxPatternTicks * PatternTickDays /\ Later
    \/ DetectPatterns

SpecPatterns == Init /\ [][NextPatterns]_vars

(***************************************************************************)
(* Calls of classifyItem.  The titles are every keyword of the table as    *)
(* written, the same in lower case and in upper case, a text without any   *)
(* keyword and the empty string; the bodies are empty or hold a keyword.   *)
(***************************************************************************)
Empty == <<>>

toUpperCase(s) ==
    [i \in 1..Len(s) |->
        IF \E k \in 1..26 : LowerSeq[k] = s[i]
        THEN UpperSeq[CHOOSE k \in 1..26 : LowerSeq[k] = s[i]]
        ELSE s[i]]

QuarterlyUpdate == <<"Q","3"," ","u","p","d","a","t","e">>

AllKeywords ==
    UNION {{Keywords[t][k] : k \in DOMAIN Keywords[t]} : t \in ClassifierTypes}

Titles ==
    AllKeywords \cup {toLowerCase(w) : w \in AllKeywords}
                \cup {toUpperCase(w) : w \in AllKeywords}
                \cup {Empty, QuarterlyUpdate}

Contents == {Empty, Keywords["crl"][1], Keywords["opdp"][1], QuarterlyUpdate}

\* classifyItem(title, content) is called
Classify(title, content) ==
    /\ \E c \in {classifyItem(title, content)} :
           classified' = <<[title |-> title, content |-> content,
                            types |-> c.types, severity |-> c.severity]>>
    /\ UNCHANGED <<companies, companyAliases, matchingCache, refreshInProgress, cycles,
                   started, startupDone, now, world, filed, lastFeed, stored, running,
                   patterns, aiCache, storedAi, feedCall>>

NextClassify == \E title \in Titles : \E content \in Contents : Classify(title, content)

SpecClassify == Init /\ [][NextClassify]_vars

(***************************************************************************)
(* Calls of extractCompanyName on the empty registry.  An item is its      *)
(* captured text and its link; beside the items above, the captures of the *)
(* titles "FDA Warning Letter ...", "A - Warning Letter" and "Monday: ..."  *)
(***************************************************************************)
FDA == <<"F","D","A">>
LetterA == <<"A">>
Monday == <<"M","o","n","d","a","y">>

ExtractItems ==
    RawItems \cup
    {[name |-> n, link |-> LinkB, date |-> RecentDay, type |-> "warning_letter"] :
        n \in {FDA, LetterA, Monday}}

\* companyIntel.extractCompanyName(title, content, link, source)
Extract(raw) ==
    /\ \E e \in {extractCompanyName(matchingCache, companies, companyAliases, raw)} :
           matchingCache' = e.cache
    /\ UNCHANGED <<companies, companyAliases, refreshInProgress, cycles, started,
                   startupDone, now, world, filed, lastFeed, stored, running, patterns,
                   classified, aiCache, storedAi, feedCall>>

NextExtract == \E raw \in ExtractItems : Extract(raw)

SpecExtract == Init /\ [][NextExtract]_vars

(***************************************************************************)
(* Cycles started by the timer, which never waits for a cycle in progress: *)
(* they overlap freely.  The sources list the items of Pfizer, two of them *)
(* one document.  MaxTimerCycles bounds the calls started, MaxTimerListed  *)
(* the items listed.                                                       *)
(***************************************************************************)
TimerItems == {r \in RawItems : r.name \in {PfizerInc, PFIZER, PfizerCInc}}

MaxTimerCycles == 2
MaxTimerListed == 2

NextTimer ==
    \/ \E x \in TimerItems : Len(world) < MaxTimerListed /\ Publish(x)
    \/ started < MaxTimerCycles /\ CronTick
    \/ \E i \in 1..MaxTimerCycles : Fetch(i)
    \/ \E i \in 1..MaxTimerCycles : Process(i)
    \/ \E i \in 1..MaxTimerCycles : Save(i)
    \/ \E i \in 1..MaxTimerCycles : Finish(i)

SpecTimer == Init /\ [][NextTimer]_vars

(***************************************************************************)
(* The fetches of one batch complete in any order.  A fetch that completes *)
(* extracts its items (fetchFeed maps them after its await); Promise.all   *)
(* hands the results over in the order of the sources, and they are pushed *)
(* to allItems in that order.  The cycle records what each source          *)
(* returned (got) and the order of completion (order).  The cycles run    *)
(* one after the other, started by the timer.  MaxBatchRuns bounds the     *)
(* calls started, MaxBatchListed the items listed.                         *)
(***************************************************************************)
\* the sources whose fetch has completed, in order of completion
Completed(c) == IF "order" \in DOMAIN c THEN c.order ELSE <<>>

\* the raw items each source returned
Got(c) == IF "got" \in DOMAIN c THEN c.got ELSE [s \in {} |-> <<>>]

\* the items of the fetches, joined in the order they completed
JoinedAsCompleted(c, results) ==
    IF Len(Completed(c)) = 2
    THEN results[Completed(c)[1]] \o results[Completed(c)[2]]
    ELSE <<>>

\* results.forEach(items => allItems.push(...items)) on the array of
\* Promise.all, which is in the order of the sources
JoinedAsConfigured(c, results) == results[Sources[1]] \o results[Sources[2]]

\* the fetch of source s completes
Complete(i, s) ==
    /\ i \in DOMAIN cycles
    /\ cycles[i].pc = "fetch"
    /\ ~InSeq(Completed(cycles[i]), s)
    /\ \E f \in {FetchItems(matchingCache, companies, companyAliases,
                              Listing(world, s))} :
           /\ matchingCache' = f.cache
           /\ cycles' = [cycles EXCEPT ![i] =
                            [trigger |-> @.trigger, pc |-> "fetch", feed |-> <<>>,
                             allItems |-> <<>>, uniqueItems |-> <<>>,
                             newViolations |-> <<>>, added |-> <<>>, again |-> FALSE,
                             saved |-> FALSE,
                             order |-> Append(Completed(@), s),
                             got |-> [x \in DOMAIN Got(@) \cup {s} |->
                                         IF x = s THEN Listing(world, s) ELSE Got(@)[x]],
                             results |-> [x \in DOMAIN Got(@) \cup {s} |->
                                             IF x = s THEN f.items ELSE @.results[x]]]]
    /\ UNCHANGED <<companies, companyAliases, refreshInProgress, started, startupDone,
                   now, world, filed, lastFeed, stored, running, patterns, classified, aiCache, storedAi, feedCall>>

\* await Promise.all(promises) resumes: every fetch of the batch has completed
Gather(i) ==
    /\ i \in DOMAIN cycles
    /\ cycles[i].pc = "fetch"
    /\ Len(Completed(cycles[i])) = 2
    /\ cycles' = [cycles EXCEPT
                     ![i].pc = "process",
                     ![i].feed = cycles[i].got[Sources[1]] \o cycles[i].got[Sources[2]],
                     ![i].allItems = JoinedAsConfigured(cycles[i], cycles[i].results)]
    /\ UNCHANGED <<companies, companyAliases, matchingCache, refreshInProgress, started,
                   startupDone, now, world, filed, lastFeed, stored, running, patterns,
                   classified, aiCache, storedAi, feedCall>>

MaxBatchRuns == 2
MaxBatchListed == 3

NextBatch ==
    \/ \E x \in RawItems : Len(world) < MaxBatchListed /\ Publish(x)
    \/ cycles = <<>> /\ started < MaxBatchRuns /\ CronTick
    \/ \E s \in {Sources[1], Sources[2]} : Complete(1, s)
    \/ Gather(1)
    \/ Process(1)
    \/ Save(1)
    \/ Finish(1)

SpecBatch == Init /\ [][NextBatch]_vars

(***************************************************************************)
(* The server with a company whose history is full: Pfizer has been        *)
(* upserted RetentionCap items, dated on consecutive days from FillDay on. *)
(* The cycles run one after the other, started by the timer.               *)
(* MaxRetainRuns bounds the calls started, MaxRetainListed the items       *)
(* listed.                                                                 *)
(***************************************************************************)
FillDay == 501

\* what extractCompanyName returns for the title of an item of the history
FillCompany == findCanonicalName(<<>>, EmptyMap, Clean(PfizerInc))

\* the link of the n-th item of the history: "/h" and three digits
DigitSeq == <<"0","1","2","3","4","5","6","7","8","9">>

FillLink(n) ==
    <<"/", "h", DigitSeq[((n \div 100) % 10) + 1], DigitSeq[((n \div 10) % 10) + 1],
      DigitSeq[(n % 10) + 1]>>

\* the n-th item of the history
FillItem(n) ==
    [title    |-> PfizerInc,
     link     |-> FillLink(n),
     date     |-> FillDay + n - 1,
     company  |-> FillCompany,
     type     |-> "form_483",
     severity |-> ItemSeverity("form_483")]

\* the Company record after the items of the history were upserted, the
\* first of them creating it: the violations newest first, the scores those
\* of the last upsert
FullCompany(today) ==
    LET Scored(c) == [c EXCEPT !.risk_score = calculateRiskScore(c, today),
                               !.compliance_score = calculateComplianceScore(c, today)]
    IN  Scored([name             |-> findCanonicalName(<<>>, EmptyMap, FillCompany),
                aliases          |-> <<FillCompany>>,
                violations       |-> [i \in 1..RetentionCap |->
                                         Violation(FillItem(RetentionCap + 1 - i))],
                risk_score       |-> 0,
                compliance_score |-> 100,
                first_seen       |-> today])

InitFull ==
    /\ \E c \in {FullCompany(StartDay)} :
           /\ companies = <<c>>
           /\ stored = save(<<c>>)
           /\ filed = {<<PfizerInc, c.name>>}
    /\ companyAliases = EmptyMap
    /\ matchingCache = EmptyMap
    /\ refreshInProgress = FALSE
    /\ cycles = <<>>
    /\ started = 0
    /\ startupDone = TRUE
    /\ now = StartDay
    /\ world = <<>>
    /\ lastFeed = <<>>
    /\ running = TRUE
    /\ patterns = NoPatterns
    /\ classified = <<>>
    /\ aiCache = EmptyMap
    /\ storedAi = EmptyMap
    /\ feedCall = NoFeedCall

MaxRetainRuns == 1
MaxRetainListed == 2

NextRetain ==
    \/ \E x \in RawItems : Len(world) < MaxRetainListed /\ Publish(x)
    \/ cycles = <<>> /\ started < MaxRetainRuns /\ CronTick
    \/ Fetch(1)
    \/ Process(1)
    \/ Save(1)
    \/ Finish(1)

SpecRetain == InitFull /\ [][NextRetain]_vars

(***************************************************************************)
(* The cycles, one after the other, and POST /api/ai/enhance with OpenAI   *)
(* configured.  The handler looks the item up in DATA_FILES.ALL_ITEMS: the *)
(* requests here arrive when a cycle has written that file and has not yet *)
(* returned, for one of its items.  The model's answer is any text, a JSON *)
(* object or not.  MaxEnhanceRuns bounds the calls started,                *)
(* MaxEnhanceListed the items listed.                                      *)
(***************************************************************************)
\* canonical_company_name of the answers: none, the registry's name, another
Answers == {<<>>, PfizerInc, PfizerCInc}

\* this.aiCache.set / this.companyAliases.set
MapSet(m, key, value) == [x \in DOMAIN m \cup {key} |-> IF x = key THEN value ELSE m[x]]

\* POST /api/ai/enhance for the k-th item of cycle i, not in the AI cache;
\* `parsed` tells whether the completion was a JSON object, `name` is its
\* canonical_company_name
Enhance(i, k, parsed, name) ==
    /\ i \in DOMAIN cycles
    /\ cycles[i].pc = "return"
    /\ cycles[i].saved
    /\ k \in DOMAIN cycles[i].uniqueItems
    /\ cycles[i].uniqueItems[k].company \notin DOMAIN aiCache
    /\ \E company \in {cycles[i].uniqueItems[k].company} :
       \E canonical \in {IF parsed THEN name
                         ELSE findCanonicalName(companies, companyAliases, company)} :
           /\ aiCache' = MapSet(aiCache, company, canonical)
           /\ storedAi' = MapSet(aiCache, company, canonical)
           /\ stored' = save(companies)
           /\ companyAliases' =
                  IF canonical # <<>> /\ canonical # company
                  THEN MapSet(companyAliases, Norm(company), canonical)
                  ELSE companyAliases
    /\ UNCHANGED <<companies, matchingCache, refreshInProgress, cycles, started,
                   startupDone, now, world, filed, lastFeed, running, patterns,
                   classified, feedCall>>

MaxEnhanceRuns == 2
MaxEnhanceListed == 2

NextEnhance ==
    \/ \E x \in TimerItems : Len(world) < MaxEnhanceListed /\ Publish(x)
    \/ cycles = <<>> /\ started < MaxEnhanceRuns /\ CronTick
    \/ Fetch(1)
    \/ Process(1)
    \/ Save(1)
    \/ Finish(1)
    \/ \E k \in 1..MaxEnhanceListed : \E parsed \in BOOLEAN : \E name \in Answers :
           Enhance(1, k, parsed, name)

SpecEnhance == Init /\ [][NextEnhance]_vars

(***************************************************************************)
(* POST /api/refresh alone, forced or not, with calls that return and      *)
(* calls that throw (a write of the item files rejects).  Every await of a *)
(* call settles: the requests carry timeouts and fs calls end, so a cycle  *)
(* that can take a step takes one.  MaxRefreshRuns bounds the calls        *)
(* started, MaxRefreshListed the items listed.                             *)
(***************************************************************************)
MaxRefreshRuns == 2
MaxRefreshListed == 1

\* a step of the call i of aggregateAllSources, or its return or throw to the
\* handler
CycleStep(i) ==
    \/ Fetch(i)
    \/ Process(i)
    \/ Save(i)
    \/ SaveItemsFails(i)
    \/ Finish(i)

NextRefresh ==
    \/ \E x \in TimerItems : Len(world) < MaxRefreshListed /\ Publish(x)
    \/ RefreshRejected
    \/ \E force \in BOOLEAN : started < MaxRefreshRuns /\ RefreshRequest(force)
    \/ \E i \in 1..MaxRefreshRuns : CycleStep(i)

SpecRefresh ==
    /\ Init
    /\ [][NextRefresh]_vars
    /\ WF_vars(\E i \in 1..MaxRefreshRuns : CycleStep(i))

(***************************************************************************)
(* fetchFeed(source) on one source, cut at its awaits: parser.parseURL and *)
(* the timer between attempts.  An attempt fails when parseURL rejects or  *)
(* when the handling of one of the items throws; the items handled before  *)
(* have been extracted.  parseURL settles (the parser has a timeout) and   *)
(* the timer fires.  `outcomes` and `got` record the attempts made and the *)
(* items of the attempt that succeeded.  MaxFeedCalls bounds the calls,    *)
(* MaxFeedCallListed the items listed.                                     *)
(***************************************************************************)
\* retries = 3
DefaultRetries == 3

MaxFeedCalls == 2
MaxFeedCallListed == 2

\* fetchFeed(source) is called: the loop starts at attempt 1
CallFetchFeed ==
    /\ feedCall.pc = "idle"
    /\ started' = started + 1
    /\ feedCall' = IF 1 <= DefaultRetries
                   THEN [NoFeedCall EXCEPT !.pc = "attempt", !.attempt = 1]
                   ELSE [NoFeedCall EXCEPT !.pc = "returned"]
    /\ UNCHANGED <<companies, companyAliases, matchingCache, refreshInProgress, cycles,
                   startupDone, now, world, filed, lastFeed, stored, running, patterns,
                   classified, aiCache, storedAi>>

\* an attempt fails and the call returns [] at once, whatever the attempt
AttemptFailsAtOnce(handled) ==
    /\ feedCall.pc = "attempt"
    /\ handled \in 0..Len(world)
    /\ \E f \in {FetchItems(matchingCache, companies, companyAliases,
                             SubSeq(world, 1, handled))} :
           matchingCache' = f.cache
    /\ feedCall' = [feedCall EXCEPT !.pc = "returned", !.results = <<>>,
                                    !.outcomes = Append(@, "failed")]
    /\ UNCHANGED <<companies, companyAliases, refreshInProgress, cycles, started,
                   startupDone, now, world, filed, lastFeed, stored, running, patterns,
                   classified, aiCache, storedAi>>

\* the try block throws after `handled` items: parseURL rejected (handled =
\* 0) or an item could not be handled; the catch block returns [] on the
\* last attempt and sets the timer otherwise
AttemptFails(handled) ==
    /\ feedCall.pc = "attempt"
    /\ handled \in 0..Len(world)
    /\ \E f \in {FetchItems(matchingCache, companies, companyAliases,
                             SubSeq(world, 1, handled))} :
           matchingCache' = f.cache
    /\ feedCall' = IF feedCall.attempt = DefaultRetries
                   THEN [feedCall EXCEPT !.pc = "returned", !.results = <<>>,
                                         !.outcomes = Append(@, "failed")]
                   ELSE [feedCall EXCEPT !.pc = "wait",
                                         !.outcomes = Append(@, "failed")]
    /\ UNCHANGED <<companies, companyAliases, refreshInProgress, cycles, started,
                   startupDone, now, world, filed, lastFeed, stored, running, patterns,
                   classified, aiCache, storedAi>>

\* the try block runs to its end: every item is handled and the results are
\* returned
AttemptSucceeds ==
    /\ feedCall.pc = "attempt"
    /\ \E f \in {FetchItems(matchingCache, companies, companyAliases, world)} :
           /\ matchingCache' = f.cache
           /\ feedCall' = [feedCall EXCEPT !.pc = "returned", !.results = f.items,
                                           !.got = f.items,
                                           !.outcomes = Append(@, "succeeded")]
    /\ UNCHANGED <<companies, companyAliases, refreshInProgress, cycles, started,
                   startupDone, now, world, filed, lastFeed, stored, running, patterns,
                   classified, aiCache, storedAi>>

\* the timer of 2000 * attempt ms fires: attempt++ and the loop test
TimerFires ==
    /\ feedCall.pc = "wait"
    /\ feedCall' = IF feedCall.attempt + 1 <= DefaultRetries
                   THEN [feedCall EXCEPT !.pc = "attempt", !.attempt = @ + 1]
                   ELSE [feedCall EXCEPT !.pc = "returned", !.results = <<>>]
    /\ UNCHANGED <<companies, companyAliases, matchingCache, refreshInProgress, cycles,
                   started, startupDone, now, world, filed, lastFeed, stored, running,
                   patterns, classified, aiCache, storedAi>>

\* the caller has the results
Returned ==
    /\ feedCall.pc = "returned"
    /\ started < MaxFeedCalls
    /\ feedCall' = NoFeedCall
    /\ UNCHANGED <<companies, companyAliases, matchingCache, refreshInProgress, cycles,
                   started, startupDone, now, world, filed, lastFeed, stored, running,
                   patterns, classified, aiCache, storedAi>>

NextFeed ==
    \/ \E x \in RawItems : Len(world) < MaxFeedCallListed /\ Publish(x)
    \/ started < MaxFeedCalls /\ CallFetchFeed
    \/ \E handled \in 0..MaxFeedCallListed : AttemptFails(handled)
    \/ AttemptSucceeds
    \/ TimerFires
    \/ Returned

SpecFeed ==
    /\ Init
    /\ [][NextFeed]_vars
    /\ WF_vars((\E handled \in 0..MaxFeedCallListed : AttemptFails(handled)) \/ AttemptSucceeds)
    /\ WF_vars(TimerFires)

(***************************************************************************)
(* Properties                                                              *)
(***************************************************************************)
\* two links that differ at most by query string, fragment and letter case
SameDocument(l1, l2) == toLowerCase(StripQuery(l1)) = toLowerCase(StripQuery(l2))

Sentinels == {UnknownCompany, TBD}

\* the captured texts of the three spellings of Pfizer
PfizerVariants == {PfizerInc, PFIZER, PfizerCInc}

\* C1: a cycle that processes the same fetched data as the cycle before it
\* leaves the number of Company records and the total number of violation
\* records as they were: it adds no company and no violation.
C1_RepeatedCycleAddsNothing ==
    [][\A i \in DOMAIN cycles :
          (Process(i) /\ cycles[i].feed = lastFeed)
              => RegistrySize(companies') = RegistrySize(companies)]_vars

\* a cycle has processed, again, the two items the cycle before it had
\* processed, and the registry holds their two violations
C1_Witness ==
    \E i \in DOMAIN cycles :
        /\ cycles[i].pc = "save"
        /\ cycles[i].again
        /\ Len(cycles[i].uniqueItems) = 2
        /\ cycles[i].added = <<>>
        /\ TotalViolations(companies) = 2

\* C2: in every cycle, newViolations (the list handed to the notifications) is
\* exactly the de-duplicated items for which updateCompany added a violation
\* record in that cycle.
C2_NewViolationsAreTheAdded ==
    \A i \in DOMAIN cycles :
        cycles[i].pc \in {"save", "return"} => cycles[i].newViolations = cycles[i].added

\* C3: at most one call of aggregateAllSources is in progress at any time.
C3_AtMostOneCycle == Len(cycles) <= 1

\* C4: no Company's violations list has two entries whose cleaned links are
\* equal.
C4_NoTwoViolationsOfOneDocument ==
    \A k \in DOMAIN companies :
        \A i, j \in DOMAIN companies[k].violations :
            i # j => ~SameDocument(companies[k].violations[i].link,
                                   companies[k].violations[j].link)

\* C5: in a cycle, of the fetched items whose links differ only by query
\* string, fragment or letter case, exactly one is in uniqueItems, the list
\* that is saved and whose items are upserted.
C5_OneKeptPerDocument ==
    \A i \in DOMAIN cycles :
        cycles[i].pc \in {"save", "return"} =>
            \A j \in DOMAIN cycles[i].allItems :
                Cardinality({u \in DOMAIN cycles[i].uniqueItems :
                                SameDocument(cycles[i].uniqueItems[u].link,
                                             cycles[i].allItems[j].link)}) = 1

\* a cycle fetched two items whose links differ, but only by query string and
\* letter case, and has de-duplicated them
C5_Witness ==
    \E i \in DOMAIN cycles :
        /\ cycles[i].pc = "save"
        /\ \E j, k \in DOMAIN cycles[i].allItems :
              /\ cycles[i].allItems[j].link # cycles[i].allItems[k].link
              /\ SameDocument(cycles[i].allItems[j].link, cycles[i].allItems[k].link)

\* C6: an item whose company text is 'Unknown Company' or 'TBD' never creates a
\* Company record and is never matched to one: no Company is named by a
\* sentinel or lists one among its aliases (the names of the items upserted
\* into it).
C6_NoCompanyOfSentinel ==
    \A k \in DOMAIN companies :
        /\ companies[k].name \notin Sentinels
        /\ \A a \in DOMAIN companies[k].aliases : companies[k].aliases[a] \notin Sentinels

\* C7: the items whose titles name 'Pfizer Inc.', 'PFIZER' and 'Pfizer, Inc'
\* are all filed under one canonical name, and the registry holds exactly one
\* Company record of that name.
C7_PfizerVariantsOneCompany ==
    \A f \in filed : \A g \in filed :
        (f[1] \in PfizerVariants /\ g[1] \in PfizerVariants) =>
            /\ f[2] = g[2]
            /\ Cardinality({k \in DOMAIN companies : companies[k].name = f[2]}) = 1

\* the three spellings have each been extracted, resolved and upserted
C7_Witness ==
    \A v \in PfizerVariants : \E f \in filed : f[1] = v

\* C8: findCanonicalName of every key of the known-company table is the
\* canonical name of the key's entry, whatever the registry and alias index.
C8_KnownKeysResolve ==
    \A k \in KnownKeys :
        findCanonicalName(companies, companyAliases, k) = KnownEntry(k).canonical

\* C9: the names of the Company records are pairwise different, and the
\* matchKey of every alias in a Company's aliases is in the alias index, where
\* it maps to that Company's name.
C9_AliasesIndexed ==
    /\ \A i, j \in DOMAIN companies : companies[i].name = companies[j].name => i = j
    /\ \A k \in DOMAIN companies :
          \A a \in DOMAIN companies[k].aliases :
              /\ Norm(companies[k].aliases[a]) \in DOMAIN companyAliases
              /\ companyAliases[Norm(companies[k].aliases[a])] = companies[k].name

\* C10: every Company's stored risk_score and compliance_score are within
\* 0..100.
C10_ScoresInRange ==
    \A k \in DOMAIN companies :
        /\ companies[k].risk_score \in 0..100
        /\ companies[k].compliance_score \in 0..100

\* a Company with seven violations whose compliance score was clamped at 0
C10_Witness ==
    \E k \in DOMAIN companies :
        /\ Len(companies[k].violations) >= 7
        /\ companies[k].compliance_score = 0
        /\ companies[k].risk_score > 0

\* C11: updateCompany with an item that has no company name creates no Company
\* and leaves the registry and the alias index as they were: no Company is
\* named by, or lists among its aliases, the empty name.
C11_NoCompanyOfMissingName ==
    \A k \in DOMAIN companies :
        /\ companies[k].name # NoName
        /\ \A a \in DOMAIN companies[k].aliases : companies[k].aliases[a] # NoName

\* the first item of every document, in order
RECURSIVE KeepFirst(_, _)
KeepFirst(items, kept) ==
    IF items = <<>> THEN kept
    ELSE IF \E k \in DOMAIN kept : SameDocument(kept[k].link, Head(items).link)
         THEN KeepFirst(Tail(items), kept)
         ELSE KeepFirst(Tail(items), Append(kept, Head(items)))

\* the items of the sources that succeeded, in source order
SucceededItems(listed, failed) ==
    SelectSeq(Listing(listed, Sources[1]) \o Listing(listed, Sources[2]),
              LAMBDA x : SourceOf(x) \notin failed)

\* C12: whatever sources fail, a cycle that has de-duplicated holds as its
\* uniqueItems the first items per document of the sources that succeeded,
\* and no others (that such a cycle runs to its return is C12_Witness).
C12_FailedSourcesContributeNothing ==
    \A i \in DOMAIN cycles :
           cycles[i].pc \in {"save", "return"} =>
              \E expected \in {KeepFirst(SucceededItems(cycles[i].listed,
                                                        cycles[i].failed), <<>>)} :
                  /\ Len(cycles[i].uniqueItems) = Len(expected)
                  /\ {<<cycles[i].uniqueItems[u].title, cycles[i].uniqueItems[u].link>> :
                         u \in DOMAIN cycles[i].uniqueItems}
                       = {<<expected[e].name, expected[e].link>> : e \in DOMAIN expected}

\* a cycle returns in which one source failed while it listed an item, and the
\* item of the other source was kept
C12_Witness ==
    \E i \in DOMAIN cycles :
        /\ cycles[i].pc = "return"
        /\ cycles[i].failed = {Sources[1]}
        /\ Listing(cycles[i].listed, Sources[1]) # <<>>
        /\ Len(cycles[i].uniqueItems) = 1

\* C13: a write that fails in the save step of a cycle loses nothing: every
\* upsert made is still in the companies map in memory, and a cycle whose
\* save succeeded has written the whole registry, the upserts of earlier
\* cycles whose save failed included.
C13_FailedWriteKeepsRegistry ==
    /\ \A f \in filed : HasCompany(companies, f[2])
    /\ \A i \in DOMAIN cycles :
           cycles[i].pc = "return" /\ cycles[i].saved => stored = save(companies)

\* C14: what save() writes, loaded by initialize() into a new process, gives
\* the companies map and the alias index that were in memory.
C14_SaveInitializeRoundTrip ==
    LET Same(r) == r.companies = companies /\ r.companyAliases = companyAliases
    IN  Same(initialize(<<>>, EmptyMap, save(companies)))


\* every company keeps its violations newest first
NewestFirst(cs) ==
    \A k \in DOMAIN cs :
        \A i \in DOMAIN cs[k].violations : \A j \in DOMAIN cs[k].violations :
            i < j => cs[k].violations[i].date >= cs[k].violations[j].date

\* C15: detectPatterns reads the registry and changes no Company record: the
\* violations of every company are still in newest-first order after it.
C15_DetectPatternsKeepsOrder == NewestFirst(companies)


\* the entries of a list of patterns that name a company
EntriesOf(list, name) == SelectSeq(list, LAMBDA e : e.company = name)

\* violation j is a most recent one of vs, and violation i a most recent one
\* of the others
TwoMostRecent(vs, i, j) ==
    /\ i # j
    /\ \A m \in DOMAIN vs : vs[m].date <= vs[j].date
    /\ \A m \in DOMAIN vs \ {j} : vs[m].date <= vs[i].date

\* the type of `to` has a strictly higher classifier severity than that of `from`
Escalates(from, to) ==
    /\ from.type \in ClassifierTypes
    /\ to.type \in ClassifierTypes
    /\ CLASSIFIERS[to.type] > CLASSIFIERS[from.type]

NamesIn(list) == {list[e].company : e \in DOMAIN list}

\* how many violations of a company are dated within the 90 days before `today`
RecentCount(company, today) ==
    Cardinality({i \in DOMAIN company.violations :
                    /\ company.violations[i].date > today - NinetyDays
                    /\ company.violations[i].date <= today})

Range(q) == {q[i] : i \in DOMAIN q}

\* the highest classifier severity of a set of types, 0 for none
HighestSeverity(T) ==
    IF T = {} THEN 0 ELSE CHOOSE m \in {CLASSIFIERS[t] : t \in T} :
                               \A t \in T : CLASSIFIERS[t] <= m

\* no keyword of the table occurs in the text, in whatever letter case
NoKeywordIn(text) ==
    \A w \in AllKeywords : ~Includes(toLowerCase(text), toLowerCase(w))

\* C18: every call of classifyItem returns a result whose types are not
\* empty: either the one sentinel type regulatory_news with severity 0, or
\* classifier types, each once, with the highest of their severities; the
\* result is the sentinel one whenever no keyword occurs in title or body,
\* empty strings included.
C18_ClassifyItemResult ==
    \A c \in DOMAIN classified :
        LET r == classified[c]
        IN  /\ r.types # <<>>
            /\ \/ r.types = <<"regulatory_news">> /\ r.severity = 0
               \/ /\ Range(r.types) \subseteq ClassifierTypes
                  /\ Cardinality(Range(r.types)) = Len(r.types)
                  /\ r.severity = HighestSeverity(Range(r.types))
            /\ NoKeywordIn(r.title) /\ NoKeywordIn(r.content)
                  => r.types = <<"regulatory_news">> /\ r.severity = 0

\* a title with a keyword of warning_letter and a body with one of crl were
\* classified as both, with the severity of crl
C18_Witness ==
    \E c \in DOMAIN classified :
        /\ classified[c].title = Keywords["warning_letter"][1]
        /\ classified[c].content = Keywords["crl"][1]
        /\ classified[c].types = <<"warning_letter", "crl">>
        /\ classified[c].severity = CLASSIFIERS["crl"]

\* C19: whenever the title or the body contains a keyword of a type, as the
\* table writes it, the result has the type among its types and a severity
\* of at least that of the type.
C19_KeywordGivesType ==
    \A c \in DOMAIN classified : \A t \in ClassifierTypes :
        (\E k \in DOMAIN Keywords[t] :
            \/ Includes(classified[c].title, Keywords[t][k])
            \/ Includes(classified[c].content, Keywords[t][k]))
        => /\ t \in Range(classified[c].types)
           /\ classified[c].severity >= CLASSIFIERS[t]


\* the tokens the validation of src/v3.js rejects whatever their letter case
\* (its invalidPatterns carry the i flag), in lower case
InvalidTokens ==
    {<<"f","d","a">>,
     <<"u","s"," ","f","d","a">>,
     <<"w","a","r","n","i","n","g"," ","l","e","t","t","e","r">>,
     <<"f","o","r","m">>,
     <<"c","o","m","p","l","e","t","e"," ","r","e","s","p","o","n","s","e">>,
     <<"c","r","l">>,
     <<"i","m","p","o","r","t"," ","a","l","e","r","t">>,
     <<"j","a","n","u","a","r","y">>,
     <<"f","e","b","r","u","a","r","y">>,
     <<"m","a","r","c","h">>,
     <<"a","p","r","i","l">>,
     <<"m","a","y">>,
     <<"j","u","n","e">>,
     <<"j","u","l","y">>,
     <<"a","u","g","u","s","t">>,
     <<"s","e","p","t","e","m","b","e","r">>,
     <<"o","c","t","o","b","e","r">>,
     <<"n","o","v","e","m","b","e","r">>,
     <<"d","e","c","e","m","b","e","r">>,
     <<"m","o","n","d","a","y">>,
     <<"t","u","e","s","d","a","y">>,
     <<"w","e","d","n","e","s","d","a","y">>,
     <<"t","h","u","r","s","d","a","y">>,
     <<"f","r","i","d","a","y">>,
     <<"s","a","t","u","r","d","a","y">>,
     <<"s","u","n","d","a","y">>}

\* isValidCompanyName(name) of src/v3.js, for a name other than the sentinel
isValidCompanyName(name) ==
    /\ name # <<>>
    /\ Len(name) >= 2
    /\ Len(name) <= 100
    /\ toLowerCase(name) \notin InvalidTokens
    /\ \E i \in DOMAIN name : name[i] \notin Digits

\* C20: every name the extractor returns (and caches) is the sentinel
\* "Unknown Company" or a name the validation accepts: not empty, of 2 to 100
\* characters, not a denylisted token, not a number.
C20_ExtractedNamesValid ==
    \A k \in DOMAIN matchingCache :
        \/ matchingCache[k] = UnknownCompany
        \/ isValidCompanyName(matchingCache[k])


\* the registry after the items are upserted one after the other, each upsert
\* starting from the registry the one before it left
RECURSIVE UpsertInTurn(_, _, _, _)
UpsertInTurn(cs, al, items, today) ==
    LET Next1(u) == UpsertInTurn(u.companies, u.companyAliases, Tail(items), today)
    IN  IF items = <<>> THEN [companies |-> cs, companyAliases |-> al]
        ELSE Next1(updateCompany(cs, al, Head(items), today))

\* C21: the registry changes only in the step of a cycle that has fetched all
\* its items, and that step leaves the registry that the upserts of the
\* de-duplicated items, made one after the other in their order, give: no
\* upsert works on a registry another upsert has half changed.
C21_UpsertsOneAtATime ==
    [][ (companies' # companies \/ companyAliases' # companyAliases) =>
          \E i \in DOMAIN cycles :
              /\ cycles[i].pc = "process"
              /\ i \in DOMAIN cycles'
              /\ cycles'[i].pc = "save"
              /\ \E r \in {UpsertInTurn(companies, companyAliases,
                                         KeepFirst(cycles[i].allItems, <<>>), now)} :
                     /\ companies' = r.companies
                     /\ companyAliases' = r.companyAliases ]_vars

\* a cycle has upserted two items in its step while another cycle, started
\* meanwhile, had fetched and not yet processed
C21_Witness ==
    \E i \in DOMAIN cycles : \E j \in DOMAIN cycles :
        /\ i # j
        /\ cycles[i].pc = "save"
        /\ Len(cycles[i].uniqueItems) = 2
        /\ Len(companies) >= 1
        /\ cycles[j].pc = "process"


\* C22: whatever the order in which the fetches of a cycle completed, the
\* items the cycle keeps are the first items per document of what the sources
\* returned, taken in the configured order of the sources.
C22_FirstInFetchOrderKept ==
    \A i \in DOMAIN cycles :
        cycles[i].pc \in {"save", "return"} =>
            \E expected \in {KeepFirst(cycles[i].got[Sources[1]]
                                          \o cycles[i].got[Sources[2]], <<>>)} :
                /\ Len(cycles[i].uniqueItems) = Len(expected)
                /\ {<<cycles[i].uniqueItems[u].title, cycles[i].uniqueItems[u].link>> :
                       u \in DOMAIN cycles[i].uniqueItems}
                     = {<<expected[e].name, expected[e].link>> : e \in DOMAIN expected}

\* a cycle returns in which the second source completed first, both sources
\* listed the same document, and the item of the first source was kept
C22_Witness ==
    \E i \in DOMAIN cycles :
        /\ cycles[i].pc = "return"
        /\ cycles[i].order = <<Sources[2], Sources[1]>>
        /\ \E a \in DOMAIN cycles[i].got[Sources[1]] :
           \E b \in DOMAIN cycles[i].got[Sources[2]] :
               /\ SameDocument(cycles[i].got[Sources[1]][a].link,
                               cycles[i].got[Sources[2]][b].link)
               /\ \E u \in DOMAIN cycles[i].uniqueItems :
                      cycles[i].uniqueItems[u].link = cycles[i].got[Sources[1]][a].link


\* C23: in every registry state, resolving a resolved name gives it back:
\* findCanonicalName(findCanonicalName(x)) = findCanonicalName(x), for the
\* names the items give rise to and for the keys of the known-company table.
C23_ResolverIdempotent ==
    LET Fixed(y) == findCanonicalName(companies, companyAliases, y) = y
    IN  \A x \in NameUniverse \cup KnownKeys :
            Fixed(findCanonicalName(companies, companyAliases, x))


\* the violations of the company of that name, none if there is no such company
ViolationsOf(cs, name) ==
    IF HasCompany(cs, name) THEN cs[CompanyIndex(cs, name)].violations ELSE <<>>

C25_ReportedNewIsRecorded ==
    \A i \in DOMAIN cycles :
        cycles[i].pc \in {"save", "return"} =>
            \A a \in DOMAIN cycles[i].added :
                \E k \in DOMAIN companies :
                    /\ companies[k].name =
                          findCanonicalName(companies, companyAliases,
                                            cycles[i].added[a].company)
                    /\ ViolationExists(companies[k], cycles[i].added[a].link)



\* C26: a name taken from the cache is the name the strategy chain and the
\* resolver would return without the cache in the registry of that moment,
\* and no name cached by an earlier run is returned in a later run: every item
\* a fetch returns carries the name extracted afresh from its title and link.
C26_CachedNameIsFresh ==
    [][\A i \in DOMAIN cycles :
          (/\ cycles[i].pc = "fetch"
           /\ i \in DOMAIN cycles'
           /\ cycles'[i].pc = "process")
          => \A k \in DOMAIN cycles'[i].allItems :
                 cycles'[i].allItems[k].company =
                     extractCompanyName(EmptyMap, companies, companyAliases, world[k]).name]_vars


\* C27: every value of the alias index is the name of a company of the
\* registry: no alias points at a canonical name that has no Company record.
C27_AliasesNameCompanies ==
    \A key \in DOMAIN companyAliases : HasCompany(companies, companyAliases[key])


\* the Company records as a set: each canonical name with the links of the
\* violations filed under it
RegistryOf(cs) ==
    {<<cs[k].name, {cs[k].violations[v].link : v \in DOMAIN cs[k].violations}>> :
        k \in DOMAIN cs}

\* the orders in which n items can be taken
Orders(n) == {p \in [1..n -> 1..n] : \A a \in 1..n : \A b \in 1..n : p[a] = p[b] => a = b}

\* C28: the Company records that result from upserting a set of items into an
\* empty registry are the same in whatever order the items are upserted: a
\* cycle that upserts its items into the empty registry leaves the records
\* that every other order of the same items gives.
C28_UpsertOrderImmaterial ==
    [][\A i \in DOMAIN cycles :
          (/\ cycles[i].pc = "process"
           /\ companies = <<>>
           /\ companyAliases = EmptyMap
           /\ i \in DOMAIN cycles'
           /\ cycles'[i].pc = "save")
          => \E items \in {KeepFirst(cycles[i].allItems, <<>>)} :
                 \A p \in Orders(Len(items)) :
                     RegistryOf(companies') =
                         RegistryOf(UpsertInTurn(<<>>, EmptyMap,
                                                 [k \in 1..Len(items) |-> items[p[k]]],
                                                 now).companies)]_vars


\* C29: the flag is set only while a call started by POST /api/refresh is in
\* progress, and whenever it is set it is cleared later: every such call
\* ends, by returning or by throwing, and the handler then clears the flag.
C29_FlagEventuallyCleared ==
    /\ [](refreshInProgress => \E i \in DOMAIN cycles : cycles[i].trigger = "refresh")
    /\ (refreshInProgress ~> ~refreshInProgress)

\* every call the handler may start has been started and has ended, and the
\* flag is clear
C29_Witness ==
    /\ started = MaxRefreshRuns
    /\ cycles = <<>>
    /\ ~refreshInProgress


\* C30: a call of fetchFeed makes at most `retries` attempts, none after one
\* that succeeded; it returns the items of the attempt that succeeded, or the
\* empty list when the last of the `retries` attempts has failed; and every
\* call returns.
C30_FetchFeedTerminates ==
    /\ [](/\ Len(feedCall.outcomes) <= DefaultRetries
          /\ \A a \in DOMAIN feedCall.outcomes :
                 feedCall.outcomes[a] = "succeeded" => a = Len(feedCall.outcomes)
          /\ feedCall.pc = "returned" =>
                 \/ /\ feedCall.outcomes # <<>>
                    /\ feedCall.outcomes[Len(feedCall.outcomes)] = "succeeded"
                    /\ feedCall.results = feedCall.got
                 \/ /\ Len(feedCall.outcomes) = DefaultRetries
                    /\ \A a \in DOMAIN feedCall.outcomes : feedCall.outcomes[a] = "failed"
                    /\ feedCall.results = <<>>)
    /\ (feedCall.pc \in {"attempt", "wait"} ~> feedCall.pc = "returned")

\* a call has returned the items of its third attempt, after two failures
C30_Witness ==
    /\ feedCall.pc = "returned"
    /\ feedCall.outcomes = <<"failed", "failed", "succeeded">>
    /\ Len(feedCall.results) = MaxFeedCallListed

====
